---- MODULE Spec2Model ----
(***************************************************************************)
(* Model of the SRM-UGC edge API worker (src/unnamed/part_000): the        *)
(* counter store SRM_COUNTS, the rate-limit store SRM_RATELIMIT, the       *)
(* catalog snapshot, and the request handlers, one action per await point. *)
(***************************************************************************)
EXTENDS Integers, Sequences, FiniteSets, TLC

(***************************************************************************)
(* JavaScript values.  A number is kept in fixed point, counted in tenths  *)
(* (the worker never stores more than one fraction digit); NaN, null and   *)
(* undefined are values of their own.  Every kind of value is a record     *)
(* with its own field, so two values of different kinds are never equal.   *)
(***************************************************************************)
Scale == 10

Undefined == [undef |-> TRUE]

Null == [null |-> TRUE]

NaN == [nan |-> TRUE]

Num(t) == [num |-> t]

IntNum(n) == Num(n * Scale)

Str(s) == [str |-> s]

IsNum(v) == DOMAIN v = {"num"}

IsStr(v) == DOMAIN v = {"str"}

\* ToBoolean: 0, NaN, "", null and undefined are falsy.
Truthy(v) ==
  IF IsNum(v) THEN v.num # 0
  ELSE IF IsStr(v) THEN v.str # ""
  ELSE FALSE

\* a || b
Or(a, b) == IF Truthy(a) THEN a ELSE b

\* a ?? b
Coalesce(a, b) == IF a = Undefined \/ a = Null THEN b ELSE a

\* The decimal text of a number of tenths t >= 0: "3" for 30, "3.5" for 35.
DecimalString(t) ==
  IF t % Scale = 0 THEN ToString(t \div Scale)
  ELSE ToString(t \div Scale) \o "." \o ToString(t % Scale)

\* Number.prototype.toFixed(1) of a number of tenths: "3.0" for 30.
FixedString(t) == ToString(t \div Scale) \o "." \o ToString(t % Scale)

\* The largest number (in tenths) whose text the model parses back.
MaxTenths == 100

Tenths == 0 .. MaxTenths

\* StringToNumber: the number whose text s is, NaN when s is no number.
ParseNumber(s) ==
  IF s = "" THEN Num(0)
  ELSE IF \E t \in Tenths : s = DecimalString(t) \/ s = FixedString(t)
       THEN Num(CHOOSE t \in Tenths : s = DecimalString(t) \/ s = FixedString(t))
       ELSE NaN

\* String(v)
String(v) ==
  IF IsStr(v) THEN v.str
  ELSE IF IsNum(v) THEN DecimalString(v.num)
  ELSE IF v = NaN THEN "NaN"
  ELSE IF v = Null THEN "null"
  ELSE "undefined"

\* Number(v)
Number(v) ==
  IF IsNum(v) THEN v
  ELSE IF IsStr(v) THEN ParseNumber(v.str)
  ELSE IF v = Null THEN Num(0)
  ELSE NaN

\* a + b on numbers
Add(a, b) == IF IsNum(a) /\ IsNum(b) THEN Num(a.num + b.num) ELSE NaN

\* a < b on numbers: every comparison with NaN is false.
Lt(a, b) == IsNum(a) /\ IsNum(b) /\ a.num < b.num

(***************************************************************************)
(* State.                                                                  *)
(***************************************************************************)
VARIABLES
  SRM_COUNTS,     \* the counter store: key -> stored text; a key exists once written
  SRM_RATELIMIT,  \* the rate-limit store: marker key -> "1"
  catalog,        \* the items of approved.json, the catalog snapshot
  req,            \* per execution unit: the request it handles and where it stands
  env,            \* the worker's configuration: HCAPTCHA_SECRET, MAX_FILE_BYTES
  github,         \* the repository the worker writes to: the monthly release, its assets, the issues
  window,         \* history: accepted actions per <<kind, id, client>> since the marker last expired
  hist            \* history: per item, accepted likes and accepted ratings (count, sum)

vars == <<SRM_COUNTS, SRM_RATELIMIT, catalog, env, github, req, window, hist>>

\* Bounds of the model.
MaxConcurrent == 2

MaxRequests == 2

Slots == 1 .. MaxConcurrent

\* KVNamespace.get: the stored text, or null for a key never written (or expired).
Get(store, k) == IF k \in DOMAIN store THEN Str(store[k]) ELSE Null

\* KVNamespace.put
Put(store, k, v) == [y \in DOMAIN store \cup {k} |-> IF y = k THEN v ELSE store[y]]

\* Expiry of a key with expirationTtl.
Drop(store, k) == [y \in DOMAIN store \ {k} |-> store[y]]

\* Faulty variant: the forwarded-for header is preferred.
ip_Forwarded(h) == Or(Or(h.xff, h.cf), Str("0.0.0.0")).str

\* ip(req): the client identity of a request with headers h.
ip(h) == Or(Or(h.cf, h.xff), Str("0.0.0.0")).str

\* Faulty variant: the like marker is kept per item, not per item and client.
LikeKey_PerItem(id, client) == "like:" \o id

LikeKey(id, client) == "like:" \o id \o ":" \o client

\* Faulty variant: a rating shares the marker of the like.
RateKey_Shared(id, client) == "like:" \o id \o ":" \o client

RateKey(id, client) == "rate:" \o id \o ":" \o client

LikesKey(id) == "likes:" \o id

DownloadsKey(id) == "downloads:" \o id

RatingKey(id) == "rating:" \o id

RatingCountKey(id) == "rating_count:" \o id

\* ok(data, cors) and err(status, message, cors)
Ok(data) == [status |-> 200, json |-> TRUE, body |-> data]

Err(status, message) ==
  [status |-> status, json |-> TRUE, body |-> [ok |-> FALSE, error |-> message]]

Idle == [op |-> "none", pc |-> "idle"]

\* A request that has produced its response.
Done(r, resp) ==
  [op |-> r.op, pc |-> "done", in |-> r.in, was |-> r.was, puts |-> r.puts, resp |-> resp]

NoLocals == [none |-> TRUE]

Bump(f, k) == [y \in DOMAIN f \cup {k} |-> IF y = k THEN (IF k \in DOMAIN f THEN f[k] ELSE 0) + 1
                                           ELSE f[y]]

Count(f, k) == IF k \in DOMAIN f THEN f[k] ELSE 0

\* History kept with a request: whether, when it arrived, an action of the same
\* kind by the same client on the same item had been accepted and its marker had
\* not expired since, and what the counter keys it is about held.
Was(kind, id, client, keys) ==
  [ already |-> Count(window, <<kind, id, client>>) > 0,
    before |-> [k \in keys |-> Get(SRM_COUNTS, k)] ]

\* A request at its first await point, with inputs in; was and puts (the keys it
\* has written) are history.
Begin(op, pc, in, was) ==
  [op |-> op, pc |-> pc, in |-> in, was |-> was, puts |-> {}, loc |-> NoLocals]

\* The request r moved to pc with locals loc, having written the keys ks.
Goto(r, pc, loc, ks) == [r EXCEPT !.pc = pc, !.loc = loc, !.puts = @ \cup ks]

InFlight(r) == r.pc \notin {"idle", "done"}

AddTo(f, k, d) == [y \in DOMAIN f \cup {k} |-> IF y = k THEN (IF k \in DOMAIN f THEN f[k] ELSE 0) + d
                                               ELSE f[y]]

\* A request may start on an execution unit that handles none.
CanStart(s) == req[s].pc = "idle"

(***************************************************************************)
(* Text helpers.                                                           *)
(***************************************************************************)
\* The characters String.prototype.trim removes (those the model's texts use).
White == {" ", "\t", "\n", "\r"}

RECURSIVE TrimStart(_)
TrimStart(t) ==
  IF Len(t) > 0 /\ SubSeq(t, 1, 1) \in White THEN TrimStart(SubSeq(t, 2, Len(t))) ELSE t

RECURSIVE TrimEnd(_)
TrimEnd(t) ==
  IF Len(t) > 0 /\ SubSeq(t, Len(t), Len(t)) \in White THEN TrimEnd(SubSeq(t, 1, Len(t) - 1))
  ELSE t

\* Faulty variant: the text is taken as it is, white space included.
norm_Untrimmed(v) == String(Coalesce(v, Str("")))

\* String(v ?? "").trim()
norm(v) == TrimEnd(TrimStart(String(Coalesce(v, Str("")))))

\* t.includes(part)
Includes(t, part) ==
  \E i \in 1 .. (Len(t) - Len(part) + 1) : SubSeq(t, i, i + Len(part) - 1) = part

\* The characters of [a-zA-Z0-9._-].
SafeChars ==
  { "a", "b", "c", "d", "e", "f", "g", "h", "i", "j", "k", "l", "m",
    "n", "o", "p", "q", "r", "s", "t", "u", "v", "w", "x", "y", "z",
    "A", "B", "C", "D", "E", "F", "G", "H", "I", "J", "K", "L", "M",
    "N", "O", "P", "Q", "R", "S", "T", "U", "V", "W", "X", "Y", "Z",
    "0", "1", "2", "3", "4", "5", "6", "7", "8", "9", ".", "_", "-" }

RECURSIVE Underscored(_)
Underscored(t) ==
  IF Len(t) = 0 THEN ""
  ELSE (IF SubSeq(t, 1, 1) \in SafeChars THEN SubSeq(t, 1, 1) ELSE "_")
       \o Underscored(SubSeq(t, 2, Len(t)))

\* name.replace(/[^a-zA-Z0-9._-]/g, "_").slice(0, 120)
sanitize(name) ==
  LET t == Underscored(name) IN IF Len(t) > 120 THEN SubSeq(t, 1, 120) ELSE t

LowerCase ==
  ("A" :> "a") @@ ("B" :> "b") @@ ("C" :> "c") @@ ("D" :> "d") @@ ("E" :> "e") @@ ("F" :>
  "f") @@ ("G" :> "g") @@ ("H" :> "h") @@ ("I" :> "i") @@ ("J" :> "j") @@ ("K" :> "k") @@
  ("L" :> "l") @@ ("M" :> "m") @@ ("N" :> "n") @@ ("O" :> "o") @@ ("P" :> "p") @@ ("Q" :>
  "q") @@ ("R" :> "r") @@ ("S" :> "s") @@ ("T" :> "t") @@ ("U" :> "u") @@ ("V" :> "v") @@
  ("W" :> "w") @@ ("X" :> "x") @@ ("Y" :> "y") @@ ("Z" :> "z")

UpperCase ==
  ("a" :> "A") @@ ("b" :> "B") @@ ("c" :> "C") @@ ("d" :> "D") @@ ("e" :> "E") @@ ("f" :>
  "F") @@ ("g" :> "G") @@ ("h" :> "H") @@ ("i" :> "I") @@ ("j" :> "J") @@ ("k" :> "K") @@
  ("l" :> "L") @@ ("m" :> "M") @@ ("n" :> "N") @@ ("o" :> "O") @@ ("p" :> "P") @@ ("q" :>
  "Q") @@ ("r" :> "R") @@ ("s" :> "S") @@ ("t" :> "T") @@ ("u" :> "U") @@ ("v" :> "V") @@
  ("w" :> "W") @@ ("x" :> "X") @@ ("y" :> "Y") @@ ("z" :> "Z")

RECURSIVE Mapped(_, _)
Mapped(t, f) ==
  IF Len(t) = 0 THEN ""
  ELSE (IF SubSeq(t, 1, 1) \in DOMAIN f THEN f[SubSeq(t, 1, 1)] ELSE SubSeq(t, 1, 1))
       \o Mapped(SubSeq(t, 2, Len(t)), f)

toLowerCase(t) == Mapped(t, LowerCase)

toUpperCase(t) == Mapped(t, UpperCase)

\* filename.split(".").pop(): the text after the last dot, the whole name when
\* it has none.
LastPart(t) ==
  LET dots == {i \in 1 .. Len(t) : SubSeq(t, i, i) = "."}
  IN IF dots = {} THEN t
     ELSE SubSeq(t, (CHOOSE i \in dots : \A j \in dots : j <= i) + 1, Len(t))

FileTypes ==
  ("json" :> "Setup File") @@ ("zip" :> "Archive") @@ ("rar" :> "Archive") @@ ("7z" :> "Archive")
  @@ ("pdf" :> "Documentation") @@ ("txt" :> "Text File") @@ ("md" :> "Documentation")
  @@ ("stl" :> "3D Model") @@ ("obj" :> "3D Model") @@ ("ini" :> "Config File")
  @@ ("cfg" :> "Config File") @@ ("xml" :> "Config File") @@ ("jpg" :> "Image")
  @@ ("jpeg" :> "Image") @@ ("png" :> "Image") @@ ("gif" :> "Image") @@ ("mp4" :> "Video")
  @@ ("avi" :> "Video") @@ ("mov" :> "Video")

getFileType(filename) ==
  LET ext == toLowerCase(LastPart(filename))
  IN IF ext \in DOMAIN FileTypes THEN FileTypes[ext] ELSE "File"

(***************************************************************************)
(* handleLike                                                              *)
(***************************************************************************)
\* String(body.id || "")
BodyId(body) == String(Or(body.id, Str("")))

\* Faulty variant: the value read is written back as it is.
LikeNext_Same(cur) == cur

\* Faulty variant: a like counts twice.
LikeNext_Two(cur) == Add(cur, IntNum(2))

\* cur + 1
LikeNext(cur) == Add(cur, IntNum(1))

\* The expirationTtl of the marker of a like, in seconds.
LikeTtl == 86400

\* History of the markers of the rate-limit store: the expirationTtl of the
\* last put of key k and the number of puts since the key was last absent.
Armed(markers, k, ttl) ==
  [y \in DOMAIN markers \cup {k} |->
     IF y = k THEN [ttl |-> ttl, puts |-> (IF k \in DOMAIN markers THEN markers[k].puts ELSE 0) + 1]
     ELSE markers[y]]

\* if (await env.SRM_RATELIMIT.get(key)): whether the marker read ends the like with 429.
LikeLimited(marker) == Truthy(marker)

LikeStart(s, body, h) ==
  /\ CanStart(s)
  /\ LET id == BodyId(body)
         r == Begin("like", "like_check",
                    [id |-> id, client |-> ip(h), key |-> LikeKey(id, ip(h))],
                    Was("like", id, ip(h), {LikesKey(id)}))
     IN req' = [req EXCEPT ![s] = IF id = "" THEN Done(r, Err(400, "Missing id")) ELSE r]
  /\ UNCHANGED <<SRM_COUNTS, SRM_RATELIMIT, catalog, env, github, window, hist>>

\* Faulty variant: a like that is refused puts the marker again.
LikeCheck_Refresh(s) ==
  /\ req[s].pc = "like_check"
  /\ LET limited == LikeLimited(Get(SRM_RATELIMIT, req[s].in.key))
     IN /\ req' = [req EXCEPT ![s] =
                     IF limited
                     THEN Done(Goto(req[s], "done", NoLocals, {req[s].in.key}),
                               Err(429, "Rate limited"))
                     ELSE Goto(req[s], "like_mark", NoLocals, {})]
        /\ hist' = IF limited THEN [hist EXCEPT !.markers = Armed(@, req[s].in.key, LikeTtl)]
                   ELSE hist
  /\ UNCHANGED <<SRM_COUNTS, SRM_RATELIMIT, catalog, env, github, window>>

LikeCheck(s) ==
  /\ req[s].pc = "like_check"
  /\ req' = [req EXCEPT ![s] =
               IF LikeLimited(Get(SRM_RATELIMIT, req[s].in.key))
               THEN Done(req[s], Err(429, "Rate limited"))
               ELSE Goto(req[s], "like_mark", NoLocals, {})]
  /\ UNCHANGED <<SRM_COUNTS, SRM_RATELIMIT, catalog, env, github, window, hist>>

\* put(key, "1", { expirationTtl: 86400 })
LikeMark(s) ==
  /\ req[s].pc = "like_mark"
  /\ SRM_RATELIMIT' = Put(SRM_RATELIMIT, req[s].in.key, "1")
  /\ hist' = [hist EXCEPT !.markers = Armed(@, req[s].in.key, LikeTtl)]
  /\ req' = [req EXCEPT ![s] = Goto(req[s], "like_read", NoLocals, {req[s].in.key})]
  /\ UNCHANGED <<SRM_COUNTS, catalog, env, github, window>>

LikeRead(s) ==
  /\ req[s].pc = "like_read"
  /\ LET cur == Number(Or(Get(SRM_COUNTS, LikesKey(req[s].in.id)), Str("0")))
     IN req' = [req EXCEPT ![s] = Goto(req[s], "like_write", [next |-> LikeNext(cur)], {})]
  /\ UNCHANGED <<SRM_COUNTS, SRM_RATELIMIT, catalog, env, github, window, hist>>

LikeWrite(s) ==
  /\ req[s].pc = "like_write"
  /\ LET id == req[s].in.id
         next == req[s].loc.next
     IN /\ SRM_COUNTS' = Put(SRM_COUNTS, LikesKey(id), String(next))
        /\ req' = [req EXCEPT ![s] =
                     Done(Goto(req[s], "done", NoLocals, {LikesKey(id)}),
                          Ok([ok |-> TRUE, id |-> id, likes |-> next]))]
        /\ window' = Bump(window, <<"like", id, req[s].in.client>>)
        /\ hist' = [hist EXCEPT !.likes = Bump(@, id)]
  /\ UNCHANGED <<SRM_RATELIMIT, catalog, env, github>>

(***************************************************************************)
(* handleRate                                                              *)
(***************************************************************************)
\* Number(body.rating || 0)
BodyRating(body) == Number(Or(body.rating, Num(0)))

\* Faulty variant: the marker is read and ignored.
RateLimited_Never(marker) == FALSE

\* The expirationTtl of the marker of a rating, in seconds.
RateTtl == 86400 * 7

\* if (await env.SRM_RATELIMIT.get(key)): whether the marker read ends the rating with 429.
RateLimited(marker) == Truthy(marker)

\* !id || rating < 1 || rating > 5
RateInvalid(id, rating) == id = "" \/ Lt(rating, IntNum(1)) \/ Lt(IntNum(5), rating)

\* The operands <<oldRating, oldCount, rating>> (tenths, count, tenths) for which
\* (oldRating * oldCount + rating) / newCount lies, as a decimal, exactly half way
\* between two tenths and its IEEE-754 double evaluation falls below that half-way
\* point, so that toFixed(1) rounds it down.  All other half-way cases round up.
\* The table covers stored ratings 1.0 .. 5.0, counts below 10 and the rating
\* values the model submits.
TiesDown ==
  UNION {
    {<<a, 1, 10>> : a \in {13, 19, 23, 29, 31, 33, 41, 43}},
    {<<a, 1, 20>> : a \in {13, 19, 21, 23, 31, 33, 41, 43}},
    {<<a, 1, 30>> : a \in {11, 13, 21, 23, 31, 33, 41, 43}},
    {<<a, 1, 35>> : a \in {16, 18, 26, 28, 36, 38, 46}},
    {<<a, 1, 40>> : a \in {11, 13, 21, 23, 31, 33, 41, 47}},
    {<<a, 1, 50>> : a \in {11, 13, 21, 23, 31, 37, 41, 47}},
    {<<a, 3, 10>> : a \in {12, 24, 28, 48}},
    {<<a, 3, 20>> : a \in {14, 34, 38, 46}},
    {<<a, 3, 30>> : a \in {12, 24, 28, 48}},
    {<<a, 3, 35>> : a \in {17, 29, 33, 41}},
    {<<a, 3, 40>> : a \in {14, 34, 38, 46}},
    {<<a, 3, 50>> : a \in {12, 24, 28, 48}},
    {<<a, 7, 10>> : a \in {14, 38, 46}},
    {<<a, 7, 30>> : a \in {18, 26}},
    {<<a, 7, 35>> : a \in {23, 31, 47}},
    {<<a, 7, 40>> : a \in {28, 36}},
    {<<a, 7, 50>> : a \in {14, 38, 46}},
    {<<a, 9, 10>> : a \in {15}},
    {<<a, 9, 30>> : a \in {15, 25, 45}},
    {<<a, 9, 35>> : a \in {20, 30, 50}},
    {<<a, 9, 40>> : a \in {25, 35}},
    {<<a, 9, 50>> : a \in {35, 45}} }

\* Number(currentRating || 0) and Number(currentCount || 0)
OldRating(currentRating) == Number(Or(currentRating, Num(0)))

\* Faulty variant: an absent count falls back to the snapshot's totalRatings, as the
\* merge of the read endpoints does.
OldCount_Baseline(currentCount) ==
  Number(Or(Or(currentCount, catalog[1].totalRatings), Num(0)))

OldCount(currentCount) == Number(Or(currentCount, Num(0)))

\* Faulty variant: the decimals beyond the first are cut off instead of rounded.
NewRatingText_Truncate(oldRating, oldCount, rating) ==
  IF oldCount = IntNum(0)
  THEN (IF IsNum(rating) THEN FixedString(rating.num) ELSE "NaN")
  ELSE IF ~(IsNum(oldRating) /\ IsNum(oldCount) /\ IsNum(rating)) THEN "NaN"
  ELSE FixedString((oldRating.num * (oldCount.num \div Scale) + rating.num)
                     \div ((oldCount.num \div Scale) + 1))

\* Faulty variant: the new average is the mean of the old average and the new rating.
NewRatingText_Pairwise(oldRating, oldCount, rating) ==
  IF oldCount = IntNum(0)
  THEN (IF IsNum(rating) THEN FixedString(rating.num) ELSE "NaN")
  ELSE IF ~(IsNum(oldRating) /\ IsNum(oldCount) /\ IsNum(rating)) THEN "NaN"
  ELSE FixedString((oldRating.num + rating.num + 1) \div 2)

\* newRating.toFixed(1), where
\*   newRating = oldCount === 0 ? rating : (oldRating * oldCount + rating) / newCount
NewRatingText(oldRating, oldCount, rating) ==
  IF oldCount = IntNum(0)
  THEN (IF IsNum(rating) THEN FixedString(rating.num) ELSE "NaN")
  ELSE IF ~(IsNum(oldRating) /\ IsNum(oldCount) /\ IsNum(rating)) THEN "NaN"
  ELSE LET n == oldCount.num \div Scale
           total == oldRating.num * n + rating.num
           q == total \div (n + 1)
           rest == total % (n + 1)
           up == \/ 2 * rest > n + 1
                 \/ 2 * rest = n + 1 /\ <<oldRating.num, n, rating.num>> \notin TiesDown
       IN FixedString(IF up THEN q + 1 ELSE q)

\* oldCount + 1
NewCount(oldCount) == Add(oldCount, IntNum(1))

RateStart(s, body, h) ==
  /\ CanStart(s)
  /\ LET id == BodyId(body)
         rating == BodyRating(body)
         r == Begin("rate", "rate_check",
                    [id |-> id, client |-> ip(h), key |-> RateKey(id, ip(h)), rating |-> rating],
                    Was("rate", id, ip(h), {RatingKey(id), RatingCountKey(id)}))
     IN req' = [req EXCEPT ![s] =
                  IF RateInvalid(id, rating)
                  THEN Done(r, Err(400, "Invalid rating (must be 1-5)"))
                  ELSE r]
  /\ UNCHANGED <<SRM_COUNTS, SRM_RATELIMIT, catalog, env, github, window, hist>>

RateCheck(s) ==
  /\ req[s].pc = "rate_check"
  /\ req' = [req EXCEPT ![s] =
               IF RateLimited(Get(SRM_RATELIMIT, req[s].in.key))
               THEN Done(req[s], Err(429, "Already rated this item"))
               ELSE Goto(req[s], "rate_mark", NoLocals, {})]
  /\ UNCHANGED <<SRM_COUNTS, SRM_RATELIMIT, catalog, env, github, window, hist>>

\* put(key, "1", { expirationTtl: 86400 * 7 })
RateMark(s) ==
  /\ req[s].pc = "rate_mark"
  /\ SRM_RATELIMIT' = Put(SRM_RATELIMIT, req[s].in.key, "1")
  /\ hist' = [hist EXCEPT !.markers = Armed(@, req[s].in.key, RateTtl)]
  /\ req' = [req EXCEPT ![s] =
               Goto(req[s], "rate_read", [todo |-> {"rating", "rating_count"}],
                    {req[s].in.key})]
  /\ UNCHANGED <<SRM_COUNTS, catalog, env, github, window>>

\* The values the two puts of the Promise.all write, from the two values read.
RatePuts(currentRating, currentCount, rating) ==
  LET oldRating == OldRating(currentRating)
      oldCount == OldCount(currentCount)
  IN [rating |-> NewRatingText(oldRating, oldCount, rating),
      rating_count |-> String(NewCount(oldCount)),
      newCount |-> NewCount(oldCount)]

\* One of the two gets of the Promise.all is served; they are served in either order.
RateRead(s, which) ==
  /\ req[s].pc = "rate_read"
  /\ which \in req[s].loc.todo
  /\ LET id == req[s].in.id
         got == IF which = "rating" THEN Get(SRM_COUNTS, RatingKey(id))
                ELSE Get(SRM_COUNTS, RatingCountKey(id))
         loc == [req[s].loc EXCEPT !.todo = @ \ {which}] @@ (which :> got)
     IN req' = [req EXCEPT ![s] =
                  IF loc.todo = {}
                  THEN Goto(req[s], "rate_write",
                            [todo |-> {"rating", "rating_count"},
                             put |-> RatePuts(loc["rating"], loc["rating_count"],
                                              req[s].in.rating)], {})
                  ELSE Goto(req[s], "rate_read", loc, {})]
  /\ UNCHANGED <<SRM_COUNTS, SRM_RATELIMIT, catalog, env, github, window, hist>>

\* One of the two puts of the Promise.all lands; they land in either order.
RateWrite(s, which) ==
  /\ req[s].pc = "rate_write"
  /\ which \in req[s].loc.todo
  /\ LET id == req[s].in.id
         put == req[s].loc.put
         key == IF which = "rating" THEN RatingKey(id) ELSE RatingCountKey(id)
         last == req[s].loc.todo = {which}
         rating == req[s].in.rating
     IN /\ SRM_COUNTS' = Put(SRM_COUNTS, key, put[which])
        /\ req' = [req EXCEPT ![s] =
                     IF last
                     THEN Done(Goto(req[s], "done", NoLocals, {key}),
                               Ok([ok |-> TRUE, id |-> id,
                                   rating |-> Number(Str(put["rating"])),
                                   totalRatings |-> put["newCount"]]))
                     ELSE Goto(req[s], "rate_write",
                               [req[s].loc EXCEPT !.todo = @ \ {which}], {key})]
        /\ window' = IF last THEN Bump(window, <<"rate", id, req[s].in.client>>) ELSE window
        /\ hist' = IF last
                   THEN [hist EXCEPT !.rates = Bump(@, id),
                                     !.sum = IF IsNum(rating) THEN AddTo(@, id, rating.num) ELSE @,
                                     !.odd = IF IsNum(rating) /\ rating.num % Scale = 0
                                             THEN @ ELSE @ \cup {id}]
                   ELSE hist
  /\ UNCHANGED <<SRM_RATELIMIT, catalog, env, github>>

(***************************************************************************)
(* handleDownloadTrack and handleDownload                                  *)
(***************************************************************************)
\* String(body.itemId || "")
BodyItemId(body) == String(Or(body.itemId, Str("")))

\* Faulty variant: the counter is written back as it was read.
DownloadNext_Same(cur) == cur

\* cur + 1
DownloadNext(cur) == Add(cur, IntNum(1))

TrackStart(s, body) ==
  /\ CanStart(s)
  /\ LET itemId == BodyItemId(body)
         r == Begin("track", "track_read",
                    [id |-> itemId, fileName |-> String(Or(body.fileName, Str("")))],
                    Was("track", itemId, "", {DownloadsKey(itemId)}))
     IN req' = [req EXCEPT ![s] = IF itemId = "" THEN Done(r, Err(400, "Missing itemId")) ELSE r]
  /\ UNCHANGED <<SRM_COUNTS, SRM_RATELIMIT, catalog, env, github, window, hist>>

TrackRead(s) ==
  /\ req[s].pc = "track_read"
  /\ LET cur == Number(Or(Get(SRM_COUNTS, DownloadsKey(req[s].in.id)), Str("0")))
     IN req' = [req EXCEPT ![s] = Goto(req[s], "track_write", [next |-> DownloadNext(cur)], {})]
  /\ UNCHANGED <<SRM_COUNTS, SRM_RATELIMIT, catalog, env, github, window, hist>>

TrackWrite(s) ==
  /\ req[s].pc = "track_write"
  /\ LET id == req[s].in.id
         next == req[s].loc.next
     IN /\ SRM_COUNTS' = Put(SRM_COUNTS, DownloadsKey(id), String(next))
        /\ req' = [req EXCEPT ![s] =
                     Done(Goto(req[s], "done", NoLocals, {DownloadsKey(id)}),
                          Ok([ok |-> TRUE, itemId |-> id, downloads |-> next,
                              fileName |-> req[s].in.fileName]))]
        /\ hist' = [hist EXCEPT !.downloads = Bump(@, id)]
  /\ UNCHANGED <<SRM_RATELIMIT, catalog, env, github, window>>

ALLOWED_ASSET_HOSTS ==
  { "github.com", "raw.githubusercontent.com", "github-releases.githubusercontent.com",
    "objects.githubusercontent.com", "uploads.github.com" }

\* The text of t before the first character of the set stop, all of t when it
\* has none.
Before(t, stop) ==
  LET at == {i \in 1 .. Len(t) : SubSeq(t, i, i) \in stop}
  IN IF at = {} THEN t ELSE SubSeq(t, 1, (CHOOSE i \in at : \A j \in at : i <= j) - 1)

\* The text of t after the last occurrence of the character c, all of t when it
\* has none.
AfterLast(t, c) ==
  LET at == {i \in 1 .. Len(t) : SubSeq(t, i, i) = c}
  IN IF at = {} THEN t ELSE SubSeq(t, (CHOOSE i \in at : \A j \in at : j <= i) + 1, Len(t))

\* The text after the scheme of an http or https address, "" for any other text:
\* the model's asset texts are http(s) addresses and texts without a scheme,
\* which new URL() throws on.
AfterScheme(asset) ==
  LET low == toLowerCase(asset)
  IN IF Len(low) >= 8 /\ SubSeq(low, 1, 8) = "https://" THEN SubSeq(asset, 9, Len(asset))
     ELSE IF Len(low) >= 7 /\ SubSeq(low, 1, 7) = "http://" THEN SubSeq(asset, 8, Len(asset))
     ELSE ""

\* new URL(asset).hostname: the authority ends at the first "/", "?" or "#",
\* credentials end at its last "@", the port starts at ":", and the name is
\* lower-cased.  "" stands for a text new URL() throws on.
Hostname(asset) ==
  toLowerCase(Before(AfterLast(Before(AfterScheme(asset), {"/", "?", "#"}), "@"), {":"}))

\* Faulty variant: the host of the asset is not compared with the allow-list.
DownloadStart_AnyHost(s, assetParam, idParam) ==
  /\ CanStart(s)
  /\ LET asset == Or(assetParam, Str("")).str
         id == Or(idParam, Str("")).str
         r == Begin("download", "download_fetch", [id |-> id, asset |-> asset],
                    Was("download", id, "", {DownloadsKey(id)}))
     IN req' = [req EXCEPT ![s] =
                  IF Hostname(asset) = "" THEN Done(r, Err(400, "Invalid asset url")) ELSE r]
  /\ UNCHANGED <<SRM_COUNTS, SRM_RATELIMIT, catalog, env, github, window, hist>>

\* The asset and id query parameters: searchParams.get(..) || "".
DownloadStart(s, assetParam, idParam) ==
  /\ CanStart(s)
  /\ LET asset == Or(assetParam, Str("")).str
         id == Or(idParam, Str("")).str
         r == Begin("download", "download_fetch", [id |-> id, asset |-> asset],
                    Was("download", id, "", {DownloadsKey(id)}))
     IN req' = [req EXCEPT ![s] =
                  IF Hostname(asset) = "" THEN Done(r, Err(400, "Invalid asset url"))
                  ELSE IF Hostname(asset) \notin ALLOWED_ASSET_HOSTS
                       THEN Done(r, Err(400, "Disallowed asset host"))
                       ELSE r]
  /\ UNCHANGED <<SRM_COUNTS, SRM_RATELIMIT, catalog, env, github, window, hist>>

\* Faulty variant: the download is counted whatever the upstream answers.
DownloadFetch_Counted(s, status) ==
  /\ req[s].pc = "download_fetch"
  /\ req' = [req EXCEPT ![s] =
               IF req[s].in.id # ""
               THEN Goto(req[s], "download_read", NoLocals, {})
               ELSE Done(req[s], [status |-> 200, json |-> FALSE, body |-> req[s].in.asset])]
  /\ UNCHANGED <<SRM_COUNTS, SRM_RATELIMIT, catalog, env, github, window, hist>>

\* The upstream answers the fetch of the asset with some status.
DownloadFetch(s, status) ==
  /\ req[s].pc = "download_fetch"
  /\ req' = [req EXCEPT ![s] =
               IF status \notin 200 .. 299
               THEN Done(req[s], [status |-> status, json |-> FALSE, body |-> "Asset not found"])
               ELSE IF req[s].in.id # ""
                    THEN Goto(req[s], "download_read", NoLocals, {})
                    ELSE Done(req[s], [status |-> 200, json |-> FALSE, body |-> req[s].in.asset])]
  /\ UNCHANGED <<SRM_COUNTS, SRM_RATELIMIT, catalog, env, github, window, hist>>

DownloadRead(s) ==
  /\ req[s].pc = "download_read"
  /\ LET cur == Number(Or(Get(SRM_COUNTS, DownloadsKey(req[s].in.id)), Str("0")))
     IN req' = [req EXCEPT ![s] = Goto(req[s], "download_write", [next |-> DownloadNext(cur)], {})]
  /\ UNCHANGED <<SRM_COUNTS, SRM_RATELIMIT, catalog, env, github, window, hist>>

DownloadWrite(s) ==
  /\ req[s].pc = "download_write"
  /\ LET id == req[s].in.id
     IN /\ SRM_COUNTS' = Put(SRM_COUNTS, DownloadsKey(id), String(req[s].loc.next))
        /\ req' = [req EXCEPT ![s] =
                     Done(Goto(req[s], "done", NoLocals, {DownloadsKey(id)}),
                          [status |-> 200, json |-> FALSE, body |-> req[s].in.asset])]
        /\ hist' = [hist EXCEPT !.downloads = Bump(@, id)]
  /\ UNCHANGED <<SRM_RATELIMIT, catalog, env, github, window>>

(***************************************************************************)
(* handleContent                                                           *)
(***************************************************************************)
\* String(it.id ?? it.number ?? "")
ItemId(it) == String(Coalesce(Coalesce(it.id, it.number), Str("")))

CounterFields == {"likes", "downloads", "rating", "totalRatings"}

\* The key each of the four gets of an item reads.
CounterKey(field, id) ==
  CASE field = "likes" -> LikesKey(id)
    [] field = "downloads" -> DownloadsKey(id)
    [] field = "rating" -> RatingKey(id)
    [] OTHER -> RatingCountKey(id)

\* The value of one counter field of the merged item: live is what the get of
\* its key returned.
\*   likes: Number(likes || it.likes || 0)            (downloads, totalRatings alike)
\*   rating: rating ? Number(rating) : it.rating || 0
MergedField(field, live, it) ==
  IF field = "rating"
  THEN (IF Truthy(live) THEN Number(live) ELSE Or(it.rating, Num(0)))
  ELSE Number(Or(Or(live, it[field]), Num(0)))

\* { ...it, likes, downloads, rating, totalRatings }
Enriched(it, got) ==
  [f \in DOMAIN it |-> IF f \in CounterFields THEN MergedField(f, got[f], it) ELSE it[f]]

\* The items of the response: an item without id is returned as it is.
Merged(items, got) ==
  [i \in DOMAIN items |->
     IF ItemId(items[i]) = "" THEN items[i]
     ELSE Enriched(items[i], [f \in CounterFields |-> got[<<i, f>>]])]

ContentStart(s) ==
  /\ CanStart(s)
  /\ req' = [req EXCEPT ![s] =
               Begin("content", "content_fetch", [path |-> "/content"],
                     [already |-> FALSE, before |-> SRM_COUNTS])]
  /\ UNCHANGED <<SRM_COUNTS, SRM_RATELIMIT, catalog, env, github, window, hist>>

\* Faulty variant: a fetch that is not ok is taken as an empty collection.
ContentFetch_Empty(s, outcome) ==
  /\ req[s].pc = "content_fetch"
  /\ LET items == IF outcome = "ok" THEN catalog ELSE << >>
         todo == {<<i, f>> : i \in {j \in DOMAIN items : ItemId(items[j]) # ""},
                             f \in CounterFields}
     IN req' = [req EXCEPT ![s] =
                  IF todo = {} THEN Done(req[s], Ok([items |-> Merged(items, << >>)]))
                  ELSE Goto(req[s], "content_read",
                            [items |-> items, todo |-> todo, got |-> << >>], {})]
  /\ UNCHANGED <<SRM_COUNTS, SRM_RATELIMIT, catalog, env, github, window, hist>>

\* The fetch of approved.json returns: not ok, ok with a body that is no JSON
\* object with an items array, or ok with the snapshot.
ContentFetch(s, outcome) ==
  /\ req[s].pc = "content_fetch"
  /\ LET items == IF outcome = "ok" THEN catalog ELSE << >>
         todo == {<<i, f>> : i \in {j \in DOMAIN items : ItemId(items[j]) # ""},
                             f \in CounterFields}
     IN req' = [req EXCEPT ![s] =
                  IF outcome = "fail" THEN Done(req[s], Err(502, "Upstream fetch failed"))
                  ELSE IF todo = {} THEN Done(req[s], Ok([items |-> Merged(items, << >>)]))
                  ELSE Goto(req[s], "content_read",
                            [items |-> items, todo |-> todo, got |-> << >>], {})]
  /\ UNCHANGED <<SRM_COUNTS, SRM_RATELIMIT, catalog, env, github, window, hist>>

\* One of the gets issued by the Promise.all calls is served; they are served in
\* any order.
ContentRead(s, i, f) ==
  /\ req[s].pc = "content_read"
  /\ <<i, f>> \in req[s].loc.todo
  /\ LET loc == req[s].loc
         got == (<<i, f>> :> Get(SRM_COUNTS, CounterKey(f, ItemId(loc.items[i])))) @@ loc.got
         todo == loc.todo \ {<<i, f>>}
     IN req' = [req EXCEPT ![s] =
                  IF todo = {} THEN Done(req[s], Ok([items |-> Merged(loc.items, got)]))
                  ELSE Goto(req[s], "content_read", [loc EXCEPT !.todo = todo, !.got = got], {})]
  /\ UNCHANGED <<SRM_COUNTS, SRM_RATELIMIT, catalog, env, github, window, hist>>

(***************************************************************************)
(* handleContentById                                                       *)
(***************************************************************************)
\* items.find((it) => String(it.id) === id || String(it.number) === id): the
\* index of the first such item, 0 when there is none.
Find(items, id) ==
  LET hits == {i \in DOMAIN items : String(items[i].id) = id \/ String(items[i].number) = id}
  IN IF hits = {} THEN 0 ELSE CHOOSE i \in hits : \A j \in hits : i <= j

\* The router takes the id from the path and answers 400 when it is empty.
ItemStart(s, id) ==
  /\ CanStart(s)
  /\ LET r == Begin("item", "item_fetch", [id |-> id],
                    [already |-> FALSE, before |-> SRM_COUNTS])
     IN req' = [req EXCEPT ![s] =
                  IF id = "" THEN Done(r, Err(400, "Missing content ID")) ELSE r]
  /\ UNCHANGED <<SRM_COUNTS, SRM_RATELIMIT, catalog, env, github, window, hist>>

ItemFetch(s, outcome) ==
  /\ req[s].pc = "item_fetch"
  /\ LET items == IF outcome = "ok" THEN catalog ELSE << >>
         i == Find(items, req[s].in.id)
         r == [req[s] EXCEPT !.was = [already |-> FALSE, before |-> SRM_COUNTS,
                                      items |-> items]]
     IN req' = [req EXCEPT ![s] =
                  IF outcome = "fail" THEN Done(req[s], Err(502, "Upstream fetch failed"))
                  ELSE IF i = 0 THEN Done(r, Err(404, "Item not found"))
                  ELSE Goto(r, "item_read",
                            [item |-> items[i], todo |-> CounterFields, got |-> << >>], {})]
  /\ UNCHANGED <<SRM_COUNTS, SRM_RATELIMIT, catalog, env, github, window, hist>>

\* One of the four gets is served; their keys are built from the requested id.
ItemRead(s, f) ==
  /\ req[s].pc = "item_read"
  /\ f \in req[s].loc.todo
  /\ LET loc == req[s].loc
         got == (f :> Get(SRM_COUNTS, CounterKey(f, req[s].in.id))) @@ loc.got
         todo == loc.todo \ {f}
     IN req' = [req EXCEPT ![s] =
                  IF todo = {} THEN Done(req[s], Ok(Enriched(loc.item, got)))
                  ELSE Goto(req[s], "item_read", [loc EXCEPT !.todo = todo, !.got = got], {})]
  /\ UNCHANGED <<SRM_COUNTS, SRM_RATELIMIT, catalog, env, github, window, hist>>

(***************************************************************************)
(* handleStats                                                             *)
(***************************************************************************)
\* Faulty variant: the live counter is ignored.
ItemDownloads_Snapshot(it, live) ==
  IF ItemId(it) = "" THEN Or(it.downloads, Num(0))
  ELSE Number(Or(it.downloads, Num(0)))

\* What the map callback returns for an item: live is what the get of
\* downloads:<id> returned.
\*   if (!id) return it.downloads || 0;
\*   return Number(downloads || it.downloads || 0);
ItemDownloads(it, live) ==
  IF ItemId(it) = "" THEN Or(it.downloads, Num(0))
  ELSE Number(Or(Or(live, it.downloads), Num(0)))

\* totalDownloads.reduce((sum, d) => sum + d, 0)
RECURSIVE SumOf(_)
SumOf(ds) ==
  IF ds = << >> THEN Num(0)
  ELSE Add(SumOf(SubSeq(ds, 1, Len(ds) - 1)), ds[Len(ds)])

\* items.reduce((acc, item) => { const cat = item[field] || "other";
\*                               acc[cat] = (acc[cat] || 0) + 1; return acc; }, {})
RECURSIVE Tally(_, _)
Tally(items, field) ==
  IF items = << >> THEN << >>
  ELSE LET acc == Tally(SubSeq(items, 1, Len(items) - 1), field)
           cat == String(Or(items[Len(items)][field], Str("other")))
       IN (cat :> Add(Or(IF cat \in DOMAIN acc THEN acc[cat] ELSE Undefined, Num(0)), IntNum(1)))
          @@ acc

\* The stats object: got holds what the gets returned, by item index.
Stats(items, got) ==
  [ totalItems |-> IntNum(Len(items)),
    totalDownloads |->
      SumOf([i \in DOMAIN items |->
               ItemDownloads(items[i], IF i \in DOMAIN got THEN got[i] ELSE Null)]),
    categories |-> Tally(items, "category"),
    games |-> Tally(items, "game") ]

StatsStart(s) ==
  /\ CanStart(s)
  /\ req' = [req EXCEPT ![s] =
               Begin("stats", "stats_fetch", [path |-> "/stats"],
                     [already |-> FALSE, before |-> SRM_COUNTS])]
  /\ UNCHANGED <<SRM_COUNTS, SRM_RATELIMIT, catalog, env, github, window, hist>>

\* The fetch of approved.json returns: not ok, ok with a body that is no JSON
\* object with an items array, or ok with the snapshot.  The items the request
\* got are kept with it as history.
StatsFetch(s, outcome) ==
  /\ req[s].pc = "stats_fetch"
  /\ LET items == IF outcome = "ok" THEN catalog ELSE << >>
         todo == {i \in DOMAIN items : ItemId(items[i]) # ""}
         r == [req[s] EXCEPT !.was = [already |-> FALSE, before |-> SRM_COUNTS,
                                      items |-> items]]
     IN req' = [req EXCEPT ![s] =
                  IF outcome = "fail" THEN Done(req[s], Err(502, "Upstream fetch failed"))
                  ELSE IF todo = {} THEN Done(r, Ok(Stats(items, << >>)))
                  ELSE Goto(r, "stats_read", [items |-> items, todo |-> todo, got |-> << >>],
                            {})]
  /\ UNCHANGED <<SRM_COUNTS, SRM_RATELIMIT, catalog, env, github, window, hist>>

\* Faulty variant: a counter the store does not hold is written from the snapshot.
StatsRead_Repair(s, i) ==
  /\ req[s].pc = "stats_read"
  /\ i \in req[s].loc.todo
  /\ LET loc == req[s].loc
         k == DownloadsKey(ItemId(loc.items[i]))
         got == (i :> Get(SRM_COUNTS, k)) @@ loc.got
         todo == loc.todo \ {i}
     IN /\ req' = [req EXCEPT ![s] =
                     IF todo = {} THEN Done(req[s], Ok(Stats(loc.items, got)))
                     ELSE Goto(req[s], "stats_read", [loc EXCEPT !.todo = todo, !.got = got],
                               {})]
        /\ SRM_COUNTS' = IF k \in DOMAIN SRM_COUNTS THEN SRM_COUNTS
                         ELSE Put(SRM_COUNTS, k, String(ItemDownloads(loc.items[i], Null)))
  /\ UNCHANGED <<SRM_RATELIMIT, catalog, env, github, window, hist>>

\* One of the gets issued by the Promise.all call is served; they are served in
\* any order.
StatsRead(s, i) ==
  /\ req[s].pc = "stats_read"
  /\ i \in req[s].loc.todo
  /\ LET loc == req[s].loc
         got == (i :> Get(SRM_COUNTS, DownloadsKey(ItemId(loc.items[i])))) @@ loc.got
         todo == loc.todo \ {i}
     IN req' = [req EXCEPT ![s] =
                  IF todo = {} THEN Done(req[s], Ok(Stats(loc.items, got)))
                  ELSE Goto(req[s], "stats_read", [loc EXCEPT !.todo = todo, !.got = got], {})]
  /\ UNCHANGED <<SRM_COUNTS, SRM_RATELIMIT, catalog, env, github, window, hist>>

(***************************************************************************)
(* handleSubmit, verifyCaptcha, monthlyRelease, createIssue                *)
(*                                                                         *)
(* A submission is [ct, form, files]: the content-type header, the text    *)
(* entries of the form and its File entries [key, name, size] in order.    *)
(* The request keeps in calls the external calls it has made, each with    *)
(* the service called, the name it passed and whether the response was ok. *)
(* Every call returns a response, ok or not; a response that is ok        *)
(* carries the JSON the service documents.                                 *)
(***************************************************************************)
RequiredFields == {"title", "category", "game", "description", "author"}

\* The default of MAX_FILE_BYTES, 100 MB.
DefaultMaxBytes == 104857600

\* Number(env.MAX_FILE_BYTES ?? "104857600")
MaxBytes ==
  IF Coalesce(env.MAX_FILE_BYTES, Null) = Null THEN IntNum(DefaultMaxBytes)
  ELSE Number(env.MAX_FILE_BYTES)

\* String(raw.captchaToken || form.get("captchaToken") || "")
CaptchaToken(form) ==
  LET got == IF form.captchaToken = Undefined THEN Null ELSE form.captchaToken
  IN String(Or(Or(form.captchaToken, got), Str("")))

\* Faulty variant: every File entry of the form is taken, whatever its field.
UploadFiles_AnyField(files) == files

\* The entries v instanceof File with k === "files", in the order of the form.
UploadFiles(files) == SelectSeq(files, LAMBDA f : f.key = "files")

\* A finished submission keeps the calls it made.
SubmitDone(r, resp) == Done(r, resp) @@ [calls |-> r.calls]

Called(r, call, arg, ok) ==
  [r EXCEPT !.calls = Append(@, [call |-> call, arg |-> arg, ok |-> ok])]

\* Faulty variant: no file is too large.
AtFile_NoLimit(r) ==
  IF r.loc.k > Len(r.loc.files) THEN Goto(r, "submit_issue", r.loc, {})
  ELSE Goto(r, "submit_upload", r.loc, {})

\* The loop over the files at file k: past the last file the issue is created,
\* an oversized file ends the submission, any other file is uploaded.
AtFile(r) ==
  LET l == r.loc IN
  IF l.k > Len(l.files) THEN Goto(r, "submit_issue", l, {})
  ELSE LET f == l.files[l.k] IN
       IF Lt(l.max, f.size)
       THEN SubmitDone(r, Err(413, "File too large: " \o f.name \o " (" \o String(f.size)
                                   \o " > " \o String(l.max) \o ")"))
       ELSE Goto(r, "submit_upload", l, {})

\* Up to the first external call: content type, form, required fields, and the
\* part of verifyCaptcha that runs before its fetch.
SubmitStart(s, h) ==
  /\ CanStart(s)
  /\ LET ct == String(Or(h.ct, Str("")))
         meta == [f \in RequiredFields |-> norm(h.form[f])]
         captchaToken == CaptchaToken(h.form)
         r == Begin("submit", "submit_start", h, [already |-> FALSE, before |-> github])
              @@ [calls |-> << >>]
         l == [meta |-> meta, captchaToken |-> captchaToken, max |-> MaxBytes,
               files |-> UploadFiles(h.files), filesMeta |-> << >>, k |-> 1]
     IN req' = [req EXCEPT ![s] =
                  IF ~Includes(ct, "multipart/form-data")
                  THEN SubmitDone(r, Err(415, "Use multipart/form-data"))
                  ELSE IF \E f \in RequiredFields : meta[f] = ""
                  THEN SubmitDone(r, Err(400, "Missing required fields"))
                  ELSE IF ~Truthy(env.HCAPTCHA_SECRET) THEN Goto(r, "submit_release", l, {})
                  ELSE IF captchaToken = "" THEN SubmitDone(r, Err(400, "Captcha failed"))
                  ELSE Goto(r, "submit_captcha", l, {})]
  /\ hist' = [hist EXCEPT !.submits = @ + 1]
  /\ UNCHANGED <<SRM_COUNTS, SRM_RATELIMIT, catalog, env, github, window>>

\* Faulty variant: the answer of the verification service is not looked at.
SubmitCaptcha_Pass(s, success) ==
  /\ req[s].pc = "submit_captcha"
  /\ req' = [req EXCEPT ![s] =
               Goto(Called(req[s], "siteverify", "", success), "submit_release", req[s].loc, {})]
  /\ UNCHANGED <<SRM_COUNTS, SRM_RATELIMIT, catalog, env, github, window, hist>>

\* The verification service answers: success or not.
SubmitCaptcha(s, success) ==
  /\ req[s].pc = "submit_captcha"
  /\ LET r == Called(req[s], "siteverify", "", success)
     IN req' = [req EXCEPT ![s] =
                  IF success THEN Goto(r, "submit_release", r.loc, {})
                  ELSE SubmitDone(r, Err(400, "Captcha failed"))]
  /\ UNCHANGED <<SRM_COUNTS, SRM_RATELIMIT, catalog, env, github, window, hist>>

\* monthlyRelease looks this month's tag up; only an existing release is found.
SubmitReleaseGet(s, found) ==
  /\ req[s].pc = "submit_release"
  /\ found => github.release
  /\ LET r == Called(req[s], "release_get", "", found)
     IN req' = [req EXCEPT ![s] =
                  IF found THEN AtFile(r) ELSE Goto(r, "submit_release_post", r.loc, {})]
  /\ UNCHANGED <<SRM_COUNTS, SRM_RATELIMIT, catalog, env, github, window, hist>>

\* Faulty variant: the submission goes on without a release.
SubmitReleasePost_Ignore(s, created) ==
  /\ req[s].pc = "submit_release_post"
  /\ created => ~github.release
  /\ req' = [req EXCEPT ![s] = AtFile(Called(req[s], "release_post", "", created))]
  /\ github' = IF created THEN [github EXCEPT !.release = TRUE] ELSE github
  /\ UNCHANGED <<SRM_COUNTS, SRM_RATELIMIT, catalog, env, window, hist>>

\* monthlyRelease creates the release; the repository refuses a tag it has.  A
\* failure is thrown and the router answers 500 with its message.
SubmitReleasePost(s, created) ==
  /\ req[s].pc = "submit_release_post"
  /\ created => ~github.release
  /\ LET r == Called(req[s], "release_post", "", created)
     IN req' = [req EXCEPT ![s] =
                  IF created THEN AtFile(r)
                  ELSE SubmitDone(r, Err(500, "Failed to create release"))]
  /\ github' = IF created THEN [github EXCEPT !.release = TRUE] ELSE github
  /\ UNCHANGED <<SRM_COUNTS, SRM_RATELIMIT, catalog, env, window, hist>>

\* Faulty variant: a file whose upload failed is left out and the loop goes on.
SubmitUpload_Continue(s, uploaded) ==
  /\ req[s].pc = "submit_upload"
  /\ LET l == req[s].loc
         f == l.files[l.k]
         safe == sanitize(f.name)
         r == Called(req[s], "upload", safe, uploaded)
         fm == [name |-> safe, url |-> "download/" \o safe, size |-> f.size,
                type |-> getFileType(f.name)]
     IN /\ req' = [req EXCEPT ![s] =
                     IF uploaded
                     THEN AtFile([r EXCEPT !.loc.filesMeta = Append(@, fm), !.loc.k = @ + 1])
                     ELSE AtFile([r EXCEPT !.loc.k = @ + 1])]
        /\ github' = IF uploaded
                     THEN [github EXCEPT !.assets = Append(@, [name |-> safe, size |-> f.size])]
                     ELSE github
  /\ UNCHANGED <<SRM_COUNTS, SRM_RATELIMIT, catalog, env, window, hist>>

\* Faulty variant: a failed upload is tried again, for as long as it fails.
SubmitUpload_Again(s, uploaded) ==
  /\ req[s].pc = "submit_upload"
  /\ LET l == req[s].loc
         f == l.files[l.k]
         safe == sanitize(f.name)
         r == Called(req[s], "upload", safe, uploaded)
         fm == [name |-> safe, url |-> "download/" \o safe, size |-> f.size,
                type |-> getFileType(f.name)]
         again == [retry |-> ~("retry" \in DOMAIN l /\ l.retry)] @@ l
     IN /\ req' = [req EXCEPT ![s] =
                     IF uploaded
                     THEN AtFile([r EXCEPT !.loc.filesMeta = Append(@, fm), !.loc.k = @ + 1])
                     ELSE Goto(req[s], "submit_upload", again, {})]
        /\ github' = IF uploaded
                     THEN [github EXCEPT !.assets = Append(@, [name |-> safe, size |-> f.size])]
                     ELSE github
  /\ UNCHANGED <<SRM_COUNTS, SRM_RATELIMIT, catalog, env, window, hist>>

\* The upload of file k returns.
SubmitUpload(s, uploaded) ==
  /\ req[s].pc = "submit_upload"
  /\ LET l == req[s].loc
         f == l.files[l.k]
         safe == sanitize(f.name)
         r == Called(req[s], "upload", safe, uploaded)
         fm == [name |-> safe, url |-> "download/" \o safe, size |-> f.size,
                type |-> getFileType(f.name)]
     IN /\ req' = [req EXCEPT ![s] =
                     IF uploaded
                     THEN AtFile([r EXCEPT !.loc.filesMeta = Append(@, fm), !.loc.k = @ + 1])
                     ELSE SubmitDone(r, Err(502, "Asset upload failed for " \o f.name))]
        /\ github' = IF uploaded
                     THEN [github EXCEPT !.assets = Append(@, [name |-> safe, size |-> f.size])]
                     ELSE github
  /\ UNCHANGED <<SRM_COUNTS, SRM_RATELIMIT, catalog, env, window, hist>>

\* Faulty variant: a failed creation of the issue is tried again.
SubmitIssue_Retry(s, created) ==
  /\ req[s].pc = "submit_issue"
  /\ LET l == req[s].loc
         r == Called(req[s], "issue", "", created)
         number == Len(github.issues) + 1
         issue == [number |-> number,
                   title |-> "[" \o toUpperCase(l.meta.category) \o "] " \o l.meta.title,
                   meta |-> l.meta, files |-> l.filesMeta, labels |-> <<"pending", "ugc">>]
     IN /\ req' = [req EXCEPT ![s] =
                     IF created
                     THEN SubmitDone(r, Ok([ok |-> TRUE, message |-> "Submission created",
                                           issueUrl |-> "issues/" \o ToString(number),
                                           submissionId |-> number]))
                     ELSE IF Len(r.calls) < 8 THEN r
                     ELSE SubmitDone(r, Err(500, "Issue creation failed"))]
        /\ github' = IF created THEN [github EXCEPT !.issues = Append(@, issue)] ELSE github
  /\ UNCHANGED <<SRM_COUNTS, SRM_RATELIMIT, catalog, env, window, hist>>

\* createIssue returns.  A failure is thrown and the router answers 500.
SubmitIssue(s, created) ==
  /\ req[s].pc = "submit_issue"
  /\ LET l == req[s].loc
         r == Called(req[s], "issue", "", created)
         number == Len(github.issues) + 1
         issue == [number |-> number,
                   title |-> "[" \o toUpperCase(l.meta.category) \o "] " \o l.meta.title,
                   meta |-> l.meta, files |-> l.filesMeta, labels |-> <<"pending", "ugc">>]
     IN /\ req' = [req EXCEPT ![s] =
                     IF created
                     THEN SubmitDone(r, Ok([ok |-> TRUE,
                            message |-> "Submission created successfully! It will be reviewed and published soon.",
                            issueUrl |-> "issues/" \o ToString(number),
                            submissionId |-> number]))
                     ELSE SubmitDone(r, Err(500, "Issue creation failed"))]
        /\ github' = IF created THEN [github EXCEPT !.issues = Append(@, issue)] ELSE github
  /\ UNCHANGED <<SRM_COUNTS, SRM_RATELIMIT, catalog, env, window, hist>>

(***************************************************************************)
(* corsHeaders and the router (fetch)                                      *)
(***************************************************************************)
\* list.split(",")
RECURSIVE SplitComma(_)
SplitComma(t) ==
  IF ~Includes(t, ",") THEN <<t>>
  ELSE <<Before(t, {","})>> \o SplitComma(SubSeq(t, Len(Before(t, {","})) + 2, Len(t)))

\* t.replaceAll(".", "\\.")
RECURSIVE EscapeDots(_)
EscapeDots(t) ==
  IF Len(t) = 0 THEN ""
  ELSE (IF SubSeq(t, 1, 1) = "." THEN "\\." ELSE SubSeq(t, 1, 1))
       \o EscapeDots(SubSeq(t, 2, Len(t)))

\* t.replace("*", ".*"): the first star only.
WidenStar(t) ==
  IF ~Includes(t, "*") THEN t
  ELSE Before(t, {"*"}) \o ".*" \o SubSeq(t, Len(Before(t, {"*"})) + 2, Len(t))

\* o.trim().replaceAll(".", "\\.").replace("*", ".*")
Pattern(o) == WidenStar(EscapeDots(TrimEnd(TrimStart(o))))

\* Whether new RegExp("^" + pat + "$") throws a SyntaxError, for patterns made
\* of plain characters, escaped characters, dots, stars and parentheses: a star
\* with nothing to repeat, or a group that is not closed or not opened.
Malformed(pat) ==
  LET at(c) == {i \in 1 .. Len(pat) : SubSeq(pat, i, i) = c}
  IN \/ \E i \in at("*") : i = 1 \/ SubSeq(pat, i - 1, i - 1) \in {"*", "("}
     \/ Cardinality(at("(")) # Cardinality(at(")"))

\* The pattern as a sequence of atoms, each a literal character or the dot,
\* starred or not.
RECURSIVE Atoms(_)
Atoms(pat) ==
  IF Len(pat) = 0 THEN << >>
  ELSE LET escaped == SubSeq(pat, 1, 1) = "\\" /\ Len(pat) > 1
           n == IF escaped THEN 2 ELSE 1
           starred == Len(pat) > n /\ SubSeq(pat, n + 1, n + 1) = "*"
       IN << [lit |-> SubSeq(pat, n, n), any |-> ~escaped /\ SubSeq(pat, 1, 1) = ".",
              star |-> starred] >>
          \o Atoms(SubSeq(pat, n + (IF starred THEN 2 ELSE 1), Len(pat)))

\* new RegExp("^" + pat + "$").test(t)
RECURSIVE Matches(_, _)
Matches(atoms, t) ==
  IF atoms = << >> THEN Len(t) = 0
  ELSE LET a == Head(atoms)
           fits == Len(t) > 0 /\ (a.any \/ SubSeq(t, 1, 1) = a.lit)
       IN IF a.star
          THEN Matches(Tail(atoms), t) \/ (fits /\ Matches(atoms, SubSeq(t, 2, Len(t))))
          ELSE fits /\ Matches(Tail(atoms), SubSeq(t, 2, Len(t)))

\* list.split(",").some(..): the entries are tried in order up to the first
\* that matches; an entry whose pattern does not compile throws.
RECURSIVE SomeMatches(_, _)
SomeMatches(entries, origin) ==
  IF entries = << >> THEN "no"
  ELSE IF Malformed(Pattern(Head(entries))) THEN "throw"
  ELSE IF Matches(Atoms(Pattern(Head(entries))), origin) THEN "yes"
  ELSE SomeMatches(Tail(entries), origin)

\* corsHeaders(env, req): the headers, or the exception thrown.
corsHeaders(e, originHeader) ==
  LET origin == Or(originHeader, Str("")).str
      list == Or(e.ALLOWED_ORIGINS, Str("*")).str
      allowed == IF list = "*" THEN "yes" ELSE SomeMatches(SplitComma(list), origin)
  IN IF allowed = "throw"
     THEN [threw |-> TRUE, message |-> "Invalid regular expression"]
     ELSE [threw |-> FALSE,
           allowOrigin |-> IF allowed = "yes" THEN origin ELSE "*",
           allowHeaders |-> "authorization,content-type",
           allowMethods |-> "GET,POST,OPTIONS",
           maxAge |-> "600"]

\* The handler the router gives a request to; "none" when no route matches.
RouteOf(method, path) ==
  CASE path = "/content" /\ method = "GET" -> "content"
    [] Len(path) >= 9 /\ SubSeq(path, 1, 9) = "/content/" /\ method = "GET" -> "item"
    [] path = "/like" /\ method = "POST" -> "like"
    [] path = "/rate" /\ method = "POST" -> "rate"
    [] path = "/download" /\ method = "GET" -> "download"
    [] path = "/download/track" /\ method = "POST" -> "track"
    [] path = "/submit" /\ method = "POST" -> "submit"
    [] path = "/stats" /\ method = "GET" -> "stats"
    [] OTHER -> "none"

\* What the caller gets when fetch() throws: the exception leaves the worker,
\* and the runtime answers in its place with an error page of its own.
Uncaught(message) == [status |-> 500, json |-> FALSE, body |-> message, uncaught |-> TRUE]

\* corsHeaders throws: it is called before the try block of fetch().
CorsThrows(s, originHeader) ==
  /\ CanStart(s)
  /\ corsHeaders(env, originHeader).threw
  /\ req' = [req EXCEPT ![s] =
               Done(Begin("fetch", "cors", [origin |-> originHeader,
                                            thrown |-> corsHeaders(env, originHeader).message],
                          [already |-> FALSE, before |-> SRM_COUNTS]),
                    Uncaught(corsHeaders(env, originHeader).message))]
  /\ UNCHANGED <<SRM_COUNTS, SRM_RATELIMIT, catalog, env, github, window, hist>>

\* An OPTIONS request is answered 204 with the headers and no body.
Options(s, originHeader) ==
  /\ CanStart(s)
  /\ ~corsHeaders(env, originHeader).threw
  /\ req' = [req EXCEPT ![s] =
               Done(Begin("options", "options", [origin |-> originHeader],
                          [already |-> FALSE, before |-> SRM_COUNTS]),
                    [status |-> 204, json |-> FALSE, body |-> Null,
                     cors |-> corsHeaders(env, originHeader)])]
  /\ UNCHANGED <<SRM_COUNTS, SRM_RATELIMIT, catalog, env, github, window, hist>>

\* A request that matches no route is answered 404 with the text "Not found".
Unmatched(s, method, path, originHeader) ==
  /\ CanStart(s)
  /\ ~corsHeaders(env, originHeader).threw
  /\ method # "OPTIONS" /\ RouteOf(method, path) = "none"
  /\ req' = [req EXCEPT ![s] =
               Done(Begin("unmatched", "route", [method |-> method, path |-> path],
                          [already |-> FALSE, before |-> SRM_COUNTS]),
                    [status |-> 404, json |-> FALSE, body |-> "Not found"])]
  /\ UNCHANGED <<SRM_COUNTS, SRM_RATELIMIT, catalog, env, github, window, hist>>

(***************************************************************************)
(* The environment: responses are delivered, markers expire.               *)
(***************************************************************************)
\* The response of a finished request is delivered and its execution unit is free.
Reply(s) ==
  /\ req[s].pc = "done"
  /\ req' = [req EXCEPT ![s] = Idle]
  /\ UNCHANGED <<SRM_COUNTS, SRM_RATELIMIT, catalog, env, github, window, hist>>

\* The marker key of an action <<kind, id, client>>.
MarkerKey(t) == IF t[1] = "like" THEN LikeKey(t[2], t[3]) ELSE RateKey(t[2], t[3])

\* The marker k reaches its expirationTtl (86400 s for a like, 7 * 86400 s for a
\* rating) and the store removes it.  The window is far longer than a request:
\* no request that uses k is under way when k expires.
Expire(k) ==
  /\ k \in DOMAIN SRM_RATELIMIT
  /\ \A s \in Slots : InFlight(req[s]) => ("key" \in DOMAIN req[s].in => req[s].in.key # k)
  /\ SRM_RATELIMIT' = Drop(SRM_RATELIMIT, k)
  /\ window' = [t \in {u \in DOMAIN window : MarkerKey(u) # k} |-> window[t]]
  /\ hist' = [hist EXCEPT !.markers = Drop(@, k)]
  /\ UNCHANGED <<SRM_COUNTS, catalog, env, github, req>>

(***************************************************************************)
(* Initial state and inputs.                                               *)
(***************************************************************************)
Item(id, number, category, likes, downloads, rating, totalRatings) ==
  [id |-> id, number |-> number, category |-> category, game |-> Str("acc"),
   likes |-> likes, downloads |-> downloads, rating |-> rating, totalRatings |-> totalRatings]

\* A snapshot with an item that carries baseline counters and a legacy item
\* known by its number only.
BaseCatalog ==
  << Item(IntNum(1), Undefined, Str("setup"), IntNum(5), IntNum(7), Num(45), IntNum(2)),
     Item(Undefined, IntNum(2), Undefined, Undefined, Undefined, Undefined, Undefined) >>

EmptyStore == [k \in {} |-> ""]

NoHistory == [likes |-> EmptyStore, rates |-> EmptyStore, sum |-> EmptyStore,
              downloads |-> EmptyStore, odd |-> {}, submits |-> 0, markers |-> EmptyStore]

\* A worker with neither HCAPTCHA_SECRET nor MAX_FILE_BYTES set.
NoConfig == [HCAPTCHA_SECRET |-> Undefined, MAX_FILE_BYTES |-> Undefined]

\* A repository without this month's release, without assets and issues.
NoGithub == [release |-> FALSE, assets |-> << >>, issues |-> << >>]

Init ==
  /\ SRM_COUNTS = EmptyStore
  /\ SRM_RATELIMIT = EmptyStore
  /\ catalog = BaseCatalog
  /\ env = NoConfig
  /\ github = NoGithub
  /\ req = [s \in Slots |-> Idle]
  /\ window = EmptyStore
  /\ hist = NoHistory

\* Request headers: cf-connecting-ip and x-forwarded-for, null when absent.
Headers ==
  { [cf |-> Str("a"), xff |-> Null], [cf |-> Str("a"), xff |-> Str("b")],
    [cf |-> Null, xff |-> Str("b")], [cf |-> Null, xff |-> Null] }

\* JSON bodies; a body that is not JSON reads as {} (every field undefined).
IdInputs == {Undefined, Str(""), Str("1"), IntNum(2)}

RatingInputs ==
  {Undefined, IntNum(0), IntNum(1), IntNum(2), IntNum(5), IntNum(6), Num(35), Str("abc"), Str("4")}

LikeBodies == {[id |-> i] : i \in IdInputs}

RateBodies == {[id |-> i, rating |-> v] : i \in IdInputs, v \in RatingInputs}

TrackBodies == {[itemId |-> i, fileName |-> Str("a.zip")] : i \in IdInputs}

AssetInputs ==
  { Null, Str("not a url"), Str("https://evil.example/a.zip"),
    Str("https://github.com/o/r/releases/download/t/a.zip"),
    Str("https://objects.githubusercontent.com/a.zip") }

IdParams == {Null, Str("1"), Str("2")}

UpstreamStatuses == {200, 404, 503}

Total(f) == LET RECURSIVE sum(_)
                sum(D) == IF D = {} THEN 0
                          ELSE LET k == CHOOSE k \in D : TRUE IN f[k] + sum(D \ {k})
            IN sum(DOMAIN f)

\* The number of counter updates accepted so far.
Accepted == Total(hist.likes) + Total(hist.rates) + Total(hist.downloads)

\* The steps of the request handled by execution unit s.
LikeStep(s) == LikeCheck(s) \/ LikeMark(s) \/ LikeRead(s) \/ LikeWrite(s)

RateStep(s) ==
  \/ RateCheck(s) \/ RateMark(s)
  \/ \E which \in {"rating", "rating_count"} : RateRead(s, which) \/ RateWrite(s, which)

DownloadStep(s) ==
  \/ TrackRead(s) \/ TrackWrite(s)
  \/ \E status \in UpstreamStatuses : DownloadFetch(s, status)
  \/ DownloadRead(s) \/ DownloadWrite(s)

\* A request arrives at execution unit s.
Arrive(s) ==
  /\ Accepted < MaxRequests
  /\ \/ \E body \in LikeBodies, h \in Headers : LikeStart(s, body, h)
     \/ \E body \in RateBodies, h \in Headers : RateStart(s, body, h)
     \/ \E body \in TrackBodies : TrackStart(s, body)
     \/ \E a \in AssetInputs, i \in IdParams : DownloadStart(s, a, i)

\* Requests handled one after the other: a single execution unit.
Next ==
  \/ Arrive(1)
  \/ LikeStep(1) \/ RateStep(1) \/ DownloadStep(1)
  \/ Reply(1)
  \/ \E k \in DOMAIN SRM_RATELIMIT : Expire(k)

Spec == Init /\ [][Next]_vars

\* Like requests handled one after the other.
MaxLikes == 4

NextLike ==
  \/ /\ Total(hist.likes) < MaxLikes
     /\ \E body \in LikeBodies, h \in Headers : LikeStart(1, body, h)
  \/ LikeStep(1)
  \/ Reply(1)
  \/ \E k \in DOMAIN SRM_RATELIMIT : Expire(k)

SpecLike == Init /\ [][NextLike]_vars

\* Rate requests handled one after the other.
MaxRates == 2

NextRating ==
  \/ /\ Total(hist.rates) < MaxRates
     /\ \E body \in RateBodies, h \in Headers : RateStart(1, body, h)
  \/ RateStep(1)
  \/ Reply(1)
  \/ \E k \in DOMAIN SRM_RATELIMIT : Expire(k)

SpecRating == Init /\ [][NextRating]_vars

\* Ratings of one item with integer values 1..5, handled one after the other;
\* the client rates again once its marker has expired.
MaxRatings == 7

RatedItem == "1"

NextRate ==
  \/ /\ Count(hist.rates, RatedItem) < MaxRatings
     /\ \E v \in 1 .. 5 :
          RateStart(1, [id |-> Str(RatedItem), rating |-> IntNum(v)], [cf |-> Str("a"), xff |-> Null])
  \/ RateStep(1)
  \/ Reply(1)
  \/ \E k \in DOMAIN SRM_RATELIMIT : Expire(k)

SpecRate == Init /\ [][NextRate]_vars

\* Requests on one item handled concurrently: every await point of one request
\* may be followed by steps of another.
ConcHeaders == {[cf |-> Str("a"), xff |-> Null], [cf |-> Null, xff |-> Str("b")]}

ConcArrive(s) ==
  /\ Accepted < MaxRequests
  /\ \/ \E h \in ConcHeaders : LikeStart(s, [id |-> Str("1")], h)
     \/ \E h \in ConcHeaders, v \in {1, 5} :
          RateStart(s, [id |-> Str("1"), rating |-> IntNum(v)], h)
     \/ TrackStart(s, [itemId |-> Str("1"), fileName |-> Str("a.zip")])
     \/ DownloadStart(s, Str("https://github.com/o/r/releases/download/t/a.zip"), Str("1"))

NextConc ==
  \/ \E s \in Slots : ConcArrive(s)
  \/ \E s \in Slots : LikeStep(s) \/ RateStep(s) \/ DownloadStep(s) \/ Reply(s)
  \/ \E k \in DOMAIN SRM_RATELIMIT : Expire(k)

SpecConc == Init /\ [][NextConc]_vars

\* The read endpoint /content over snapshots and counter stores the worker meets.
\* The snapshot adds to the base catalog an item without id or number and without
\* counters, and one without id or number that carries baseline counters.
MergeCatalog ==
  BaseCatalog \o
  << Item(Undefined, Undefined, Str("livery"), Undefined, Undefined, Undefined, Undefined),
     Item(Undefined, Undefined, Str("livery"), IntNum(3), IntNum(4), Num(20), IntNum(1)) >>

\* Counter stores left by likes, downloads and ratings of items 1 and 2.
CounterStores ==
  LET one == ("likes:1" :> "2") @@ ("downloads:1" :> "3") @@ ("rating:1" :> "4.0")
             @@ ("rating_count:1" :> "1")
      two == ("likes:2" :> "1") @@ ("rating:2" :> "3.5") @@ ("rating_count:2" :> "2")
  IN {EmptyStore, one, two, one @@ two, ("downloads:2" :> "1")}

InitMerge ==
  /\ SRM_COUNTS \in CounterStores
  /\ SRM_RATELIMIT = EmptyStore
  /\ catalog = MergeCatalog
  /\ env = NoConfig
  /\ github = NoGithub
  /\ req = [s \in Slots |-> Idle]
  /\ window = EmptyStore
  /\ hist = NoHistory

FetchOutcomes == {"fail", "malformed", "ok"}

ContentStep(s) ==
  \/ \E outcome \in FetchOutcomes : ContentFetch(s, outcome)
  \/ \E i \in DOMAIN catalog, f \in CounterFields : ContentRead(s, i, f)

NextMerge == ContentStart(1) \/ ContentStep(1) \/ Reply(1)

SpecMerge == InitMerge /\ [][NextMerge]_vars

\* The read endpoint /content/<id>.  The snapshot adds to the base catalog an
\* item that carries both an id and a legacy number.
ItemCatalog ==
  BaseCatalog \o
  << Item(IntNum(3), IntNum(7), Str("livery"), IntNum(1), IntNum(1), Num(30), IntNum(1)) >>

\* Counter stores left by likes, downloads and ratings of items 1, 2 and 3.
ItemStores ==
  CounterStores \cup {("likes:3" :> "4") @@ ("rating:3" :> "2.0") @@ ("rating_count:3" :> "2")}

InitItem ==
  /\ SRM_COUNTS \in ItemStores
  /\ SRM_RATELIMIT = EmptyStore
  /\ catalog = ItemCatalog
  /\ env = NoConfig
  /\ github = NoGithub
  /\ req = [s \in Slots |-> Idle]
  /\ window = EmptyStore
  /\ hist = NoHistory

\* The third segment of the request path.
PathIds == {"", "1", "2", "3", "7", "42", "undefined"}

ItemStep(s) ==
  \/ \E outcome \in FetchOutcomes : ItemFetch(s, outcome)
  \/ \E f \in CounterFields : ItemRead(s, f)

NextItem == (\E id \in PathIds : ItemStart(1, id)) \/ ItemStep(1) \/ Reply(1)

SpecItem == InitItem /\ [][NextItem]_vars

\* The write endpoint /submit, submissions handled one after the other.
MaxSubmits == 2

Configs ==
  { [HCAPTCHA_SECRET |-> c, MAX_FILE_BYTES |-> m] :
      c \in {Undefined, Str("secret")}, m \in {Undefined, Str("3")} }

\* A form with every required field, texts with surrounding white space.
FullForm ==
  [title |-> Str(" Fast lap "), category |-> Str("setup"), game |-> Str("acc"),
   description |-> Str("Spa\n"), author |-> Str("ann"), captchaToken |-> Str("tok")]

\* The full form, and the full form with a token or one required field absent,
\* empty or blank.
Forms ==
  {FullForm}
  \cup {[FullForm EXCEPT !.captchaToken = v] : v \in {Undefined, Str("")}}
  \cup {[FullForm EXCEPT ![f] = v] : f \in RequiredFields, v \in {Undefined, Str(""), Str(" \t")}}

FileOf(name, size) == [key |-> "files", name |-> name, size |-> IntNum(size)]

\* Attachments: sizes in bytes on both sides of a limit of 3; one File sits in
\* another field of the form.
FileLists ==
  { << >>,
    << FileOf("a b.zip", 2) >>,
    << FileOf("big.zip", 4) >>,
    << FileOf("a b.zip", 2), FileOf("big.zip", 4), FileOf("c.json", 1) >>,
    << FileOf("a b.zip", 2), [key |-> "preview", name |-> "p.png", size |-> IntNum(9)],
       FileOf("c.json", 3) >> }

ContentTypes == {Null, Str("application/json"), Str("multipart/form-data; boundary=x")}

Submissions ==
  {[ct |-> Str("multipart/form-data; boundary=x"), form |-> f, files |-> fs] :
     f \in Forms, fs \in FileLists}
  \cup {[ct |-> c, form |-> FullForm, files |-> << >>] : c \in ContentTypes}

InitSubmit ==
  /\ SRM_COUNTS = EmptyStore
  /\ SRM_RATELIMIT = EmptyStore
  /\ catalog = BaseCatalog
  /\ env \in Configs
  /\ github \in {NoGithub, [NoGithub EXCEPT !.release = TRUE]}
  /\ req = [s \in Slots |-> Idle]
  /\ window = EmptyStore
  /\ hist = NoHistory

SubmitStep(s) ==
  \/ \E success \in BOOLEAN : SubmitCaptcha(s, success)
  \/ \E found \in BOOLEAN : SubmitReleaseGet(s, found)
  \/ \E created \in BOOLEAN : SubmitReleasePost(s, created)
  \/ \E uploaded \in BOOLEAN : SubmitUpload(s, uploaded)
  \/ \E created \in BOOLEAN : SubmitIssue(s, created)

NextSubmit ==
  \/ /\ hist.submits < MaxSubmits
     /\ \E h \in Submissions : SubmitStart(1, h)
  \/ SubmitStep(1)
  \/ Reply(1)

SpecSubmit == InitSubmit /\ [][NextSubmit]_vars

\* Every external call of a submission returns: a submission that waits for one
\* takes its next step.
SpecSubmitLive == SpecSubmit /\ WF_vars(SubmitStep(1))

\* Downloads, download reports and likes handled one after the other.  The
\* asset texts include addresses that carry an allowed name in their
\* credentials, as a prefix of their host, in capitals and with a port.
MaxDownloads == 2

DownloadAssets ==
  AssetInputs \cup
    { Str("https://github.com@evil.example/a.zip"), Str("https://github.com.evil.example/a.zip"),
      Str("HTTPS://GitHub.com:8443/a.zip"), Str("github.com/a.zip") }

NextDownload ==
  \/ /\ Total(hist.downloads) + Total(hist.likes) < MaxDownloads
     /\ \/ \E body \in TrackBodies : TrackStart(1, body)
        \/ \E a \in DownloadAssets, i \in IdParams : DownloadStart(1, a, i)
        \/ \E body \in LikeBodies, h \in Headers : LikeStart(1, body, h)
  \/ DownloadStep(1) \/ LikeStep(1)
  \/ Reply(1)
  \/ \E k \in DOMAIN SRM_RATELIMIT : Expire(k)

SpecDownload == Init /\ [][NextDownload]_vars

\* The three read endpoints.  The snapshot adds to the collection's catalog an
\* item of a game of its own and an item whose category and game are empty.
ReadCatalog ==
  MergeCatalog \o
  << [Item(IntNum(3), Undefined, Str("setup"), IntNum(1), IntNum(2), Num(30), IntNum(1))
        EXCEPT !.game = Str("iracing")],
     [Item(Undefined, Undefined, Str(""), Undefined, IntNum(6), Undefined, Undefined)
        EXCEPT !.game = Str("")] >>

InitRead ==
  /\ SRM_COUNTS \in ItemStores
  /\ SRM_RATELIMIT = EmptyStore
  /\ catalog \in {ReadCatalog, << >>}
  /\ env = NoConfig
  /\ github = NoGithub
  /\ req = [s \in Slots |-> Idle]
  /\ window = EmptyStore
  /\ hist = NoHistory

StatsStep(s) ==
  \/ \E outcome \in FetchOutcomes : StatsFetch(s, outcome)
  \/ \E i \in DOMAIN catalog : StatsRead(s, i)

NextRead ==
  \/ ContentStart(1) \/ ContentStep(1)
  \/ (\E id \in PathIds : ItemStart(1, id)) \/ ItemStep(1)
  \/ StatsStart(1) \/ StatsStep(1)
  \/ Reply(1)

SpecRead == InitRead /\ [][NextRead]_vars

\* Likes and ratings handled one after the other, by clients with and without
\* address headers; markers expire in between.
MaxMarks == 3

MarkRatings == {IntNum(0), IntNum(4)}

NextMarker ==
  \/ /\ Total(hist.likes) + Total(hist.rates) < MaxMarks
     /\ \/ \E body \in LikeBodies, h \in Headers : LikeStart(1, body, h)
        \/ \E i \in IdInputs, v \in MarkRatings, h \in Headers :
             RateStart(1, [id |-> i, rating |-> v], h)
  \/ LikeStep(1) \/ RateStep(1)
  \/ Reply(1)
  \/ \E k \in DOMAIN SRM_RATELIMIT : Expire(k)

SpecMarker == Init /\ [][NextMarker]_vars

\* Every route of the worker, requests handled one after the other, over a
\* snapshot of one item.  The worker runs without an origin allow-list, with
\* one of two patterns, and with one whose second entry has two stars.
MaxApi == 1

ApiConfigs ==
  { [ALLOWED_ORIGINS |-> Undefined] @@ NoConfig,
    [ALLOWED_ORIGINS |-> Str("https://simracemarket.com, https://*.pages.dev"),
     HCAPTCHA_SECRET |-> Str("secret"), MAX_FILE_BYTES |-> Str("3")],
    [ALLOWED_ORIGINS |-> Str("https://simracemarket.com,https://**.pages.dev")] @@ NoConfig }

Origins == {Null, Str("https://simracemarket.com"), Str("https://srm.pages.dev"),
            Str("https://evil.example")}

Requests == {<<"GET", "/nope">>, <<"GET", "/like">>, <<"POST", "/content">>, <<"GET", "/">>}

\* Submissions: not multipart, without files, with a file over a limit of 3
\* bytes after one below it.
ApiSubmissions ==
  {[ct |-> c, form |-> FullForm, files |-> << >>] : c \in ContentTypes}
  \cup {[ct |-> Str("multipart/form-data; boundary=x"), form |-> FullForm,
         files |-> << FileOf("a b.zip", 2), FileOf("big.zip", 4) >>]}

InitApi ==
  /\ SRM_COUNTS = EmptyStore
  /\ SRM_RATELIMIT = EmptyStore
  /\ catalog = SubSeq(BaseCatalog, 1, 1)
  /\ env \in ApiConfigs
  /\ github = NoGithub
  /\ req = [s \in Slots |-> Idle]
  /\ window = EmptyStore
  /\ hist = NoHistory

\* The request is given to its handler.
Dispatch(s) ==
  \/ ContentStart(s)
  \/ \E id \in PathIds : ItemStart(s, id)
  \/ StatsStart(s)
  \/ /\ Accepted + hist.submits < MaxApi
     /\ \/ \E i \in {Str(""), Str("1")}, h \in Headers : LikeStart(s, [id |-> i], h)
        \/ \E v \in MarkRatings, h \in Headers :
             RateStart(s, [id |-> Str("1"), rating |-> v], h)
        \/ \E body \in TrackBodies : TrackStart(s, body)
        \/ \E a \in AssetInputs, i \in IdParams : DownloadStart(s, a, i)
        \/ \E h \in ApiSubmissions : SubmitStart(s, h)

\* fetch(req, env): the headers are computed, then the request is routed.
ApiArrive(s) ==
  \E origin \in Origins :
    \/ CorsThrows(s, origin)
    \/ Options(s, origin)
    \/ \E q \in Requests : Unmatched(s, q[1], q[2], origin)
    \/ ~corsHeaders(env, origin).threw /\ Dispatch(s)

NextApi ==
  \/ ApiArrive(1)
  \/ ContentStep(1) \/ ItemStep(1) \/ StatsStep(1)
  \/ LikeStep(1) \/ RateStep(1) \/ DownloadStep(1) \/ SubmitStep(1)
  \/ Reply(1)
  \/ \E k \in DOMAIN SRM_RATELIMIT : Expire(k)

SpecApi == InitApi /\ [][NextApi]_vars

\* Submissions handled concurrently, each by its own execution unit.
InitSubmitConc ==
  /\ SRM_COUNTS = EmptyStore
  /\ SRM_RATELIMIT = EmptyStore
  /\ catalog = BaseCatalog
  /\ env \in {NoConfig, [HCAPTCHA_SECRET |-> Str("secret"), MAX_FILE_BYTES |-> Str("3")]}
  /\ github \in {NoGithub, [NoGithub EXCEPT !.release = TRUE]}
  /\ req = [s \in Slots |-> Idle]
  /\ window = EmptyStore
  /\ hist = NoHistory

NextSubmitConc ==
  \E s \in Slots :
    \/ /\ hist.submits < MaxSubmits
       /\ \E h \in ApiSubmissions : SubmitStart(s, h)
    \/ SubmitStep(s)
    \/ Reply(s)

SpecSubmitConc == InitSubmitConc /\ [][NextSubmitConc]_vars

\* Likes of one item handled concurrently, each by its own execution unit; the
\* item has likes when the first of them arrives.
InitialLikes == 3

MaxConcLikes == 2

InitLikes ==
  /\ SRM_COUNTS = (LikesKey("1") :> String(IntNum(InitialLikes)))
  /\ SRM_RATELIMIT = EmptyStore
  /\ catalog = BaseCatalog
  /\ env = NoConfig
  /\ github = NoGithub
  /\ req = [s \in Slots |-> Idle]
  /\ window = EmptyStore
  /\ hist = NoHistory

NextLikes ==
  \/ \E s \in Slots :
       \/ /\ Total(hist.likes) + Cardinality({u \in Slots : InFlight(req[u])}) < MaxConcLikes
          /\ \E h \in ConcHeaders : LikeStart(s, [id |-> Str("1")], h)
       \/ LikeStep(s)
       \/ Reply(s)
  \/ \E k \in DOMAIN SRM_RATELIMIT : Expire(k)

SpecLikes == InitLikes /\ [][NextLikes]_vars

\* The item endpoint read while ratings of the item are written.  The rate
\* requests follow one another, each rating item 1 with 5; reads of item 1 run
\* beside them.
NextRateRead ==
  \/ \E s \in Slots :
       \/ /\ Total(hist.rates) < MaxRates
          /\ \A u \in Slots : req[u].op # "rate"
          /\ \E h \in ConcHeaders : RateStart(s, [id |-> Str("1"), rating |-> IntNum(5)], h)
       \/ ItemStart(s, "1")
       \/ RateStep(s)
       \/ ItemStep(s)
       \/ Reply(s)

SpecRateRead == Init /\ [][NextRateRead]_vars

\* A get or put of a store rejects while a like or rate request awaits it: the
\* exception leaves the handler and the catch of fetch() answers
\* err(500, e.message).  Nothing the request has written is undone.
StoreFails(s) ==
  /\ req[s].op \in {"like", "rate"}
  /\ InFlight(req[s])
  /\ req' = [req EXCEPT ![s] = Done(req[s], Err(500, "KV operation failed"))]
  /\ UNCHANGED <<SRM_COUNTS, SRM_RATELIMIT, catalog, env, github, window, hist>>

\* Likes and ratings of item 1, handled one after the other within the markers'
\* windows, with store operations that may fail.
NextFail ==
  \/ /\ Accepted < MaxRequests
     /\ \E h \in ConcHeaders :
          \/ LikeStart(1, [id |-> Str("1")], h)
          \/ RateStart(1, [id |-> Str("1"), rating |-> IntNum(5)], h)
  \/ LikeStep(1) \/ RateStep(1)
  \/ StoreFails(1)
  \/ Reply(1)

SpecFail == Init /\ [][NextFail]_vars

\* Likes and ratings whose item id or client address contains the separator of
\* the marker keys, handled one after the other within the markers' windows.
\* The id is any text of the JSON body; the address is an IPv6 address or what
\* x-forwarded-for carries.
ColonIds == {Str("1"), Str("1:a")}

ColonHeaders == {[cf |-> Str("b"), xff |-> Null], [cf |-> Str("a:b"), xff |-> Null],
                 [cf |-> Null, xff |-> Str("a:b")]}

NextColon ==
  \/ /\ Accepted < MaxRequests
     /\ \E i \in ColonIds, h \in ColonHeaders :
          \/ LikeStart(1, [id |-> i], h)
          \/ RateStart(1, [id |-> i, rating |-> IntNum(5)], h)
  \/ LikeStep(1) \/ RateStep(1)
  \/ Reply(1)

SpecColon == Init /\ [][NextColon]_vars

(***************************************************************************)
(* Claims.                                                                 *)
(***************************************************************************)
\* A finished like request on an item.
LikeDone(r) == r.pc = "done" /\ r.op = "like" /\ r.in.id # ""

\* The number a counter key holds: an absent key reads as 0.
Held(v) == Number(Or(v, Str("0")))

\* C1: with like requests handled one after the other, a like by a client whose
\* like of that item was accepted and has not expired is answered 429, writes
\* nothing and leaves likes:<id> as it was; a like by a client with no accepted
\* like of that item in the window is answered 200 and leaves likes:<id> one higher.
C1_RepeatLikeRejected ==
  \A s \in Slots :
    LikeDone(req[s]) =>
      LET r == req[s]
          k == LikesKey(r.in.id)
      IN /\ r.was.already =>
              /\ r.resp.status = 429
              /\ r.puts = {}
              /\ Get(SRM_COUNTS, k) = r.was.before[k]
         /\ ~r.was.already =>
              /\ r.resp.status = 200
              /\ Held(Get(SRM_COUNTS, k)) = Add(Held(r.was.before[k]), IntNum(1))

\* A like was rejected for a client that had liked the item, after a like of the
\* same item by another client had been accepted in the same window.
C1_Witness ==
  \E s \in Slots :
    /\ LikeDone(req[s]) /\ req[s].was.already /\ req[s].resp.status = 429
    /\ \E c \in {"a", "b", "0.0.0.0"} :
         /\ c # req[s].in.client
         /\ Count(window, <<"like", req[s].in.id, c>>) = 1
         /\ Count(window, <<"like", req[s].in.id, req[s].in.client>>) = 1
    /\ SRM_COUNTS[LikesKey(req[s].in.id)] = "2"

\* C9: an accepted like returns as the new total the value it wrote, which is
\* the value likes:<id> held (0 when absent) plus 1; and with likes handled one
\* after the other, whenever no request is under way likes:<id> equals the
\* number of likes accepted for the item (it starts absent).
C9_LikeAddsOne ==
  /\ \A s \in Slots :
       (LikeDone(req[s]) /\ req[s].resp.status = 200) =>
         LET r == req[s]
             k == LikesKey(r.in.id)
         IN /\ r.resp.body.likes = Add(Held(r.was.before[k]), IntNum(1))
            /\ Get(SRM_COUNTS, k) = Str(String(r.resp.body.likes))
            /\ r.puts = {k, r.in.key}
  /\ \A s \in Slots : InFlight(req[s]) \/
       \A id \in {"1", "2"} : Held(Get(SRM_COUNTS, LikesKey(id))) = IntNum(Count(hist.likes, id))

\* Three likes of one item by three clients were accepted, the last returning 3.
C9_Witness ==
  /\ LikeDone(req[1]) /\ req[1].resp.status = 200
  /\ req[1].resp.body.likes = IntNum(3)
  /\ \A c \in {"a", "b", "0.0.0.0"} : Count(window, <<"like", req[1].in.id, c>>) = 1

\* A finished rate request, and the rating values the contract allows.
RateDone(r) == r.pc = "done" /\ r.op = "rate"

IntegerRating(v) == IsNum(v) /\ v.num \in {IntNum(n).num : n \in 1 .. 5}

\* C4 (as claimed): a rate request with an empty id or with a value that is not
\* an integer in 1..5 writes no key of either store and ends with 400.
C4_InvalidRatingRejected ==
  \A s \in Slots :
    (req[s].op = "rate" /\ (req[s].in.id = "" \/ ~IntegerRating(req[s].in.rating))) =>
      /\ req[s].puts = {}
      /\ req[s].pc = "done" => req[s].resp.status = 400

\* C7: with rate requests handled one after the other, a rating r in 1..5
\* accepted while neither rating:<id> nor rating_count:<id> exists stores r with
\* one decimal and the count 1, and returns rating r and totalRatings 1, whatever
\* rating the snapshot holds for the item.
C7_FirstRating ==
  \A s \in Slots :
    LET r == req[s] IN
    (/\ RateDone(r) /\ r.resp.status = 200 /\ IntegerRating(r.in.rating)
     /\ \A k \in DOMAIN r.was.before : r.was.before[k] = Null) =>
      /\ Get(SRM_COUNTS, RatingKey(r.in.id)) = Str(FixedString(r.in.rating.num))
      /\ Get(SRM_COUNTS, RatingCountKey(r.in.id)) = Str("1")
      /\ r.resp.body.rating = r.in.rating
      /\ r.resp.body.totalRatings = IntNum(1)

\* The first rating of item 1, whose snapshot entry holds a rating of 4.5 from
\* 2 ratings, was accepted with the value 2.
C7_Witness ==
  /\ RateDone(req[1]) /\ req[1].resp.status = 200
  /\ req[1].in.id = "1" /\ req[1].in.rating = IntNum(2)
  /\ req[1].was.before[RatingKey("1")] = Null
  /\ catalog[1].id = IntNum(1) /\ catalog[1].rating = Num(45)
  /\ SRM_COUNTS[RatingKey("1")] = "2.0"

\* C8: with rate requests handled one after the other, a rating in 1..5 by a
\* client whose rating of that item was accepted and has not expired is answered
\* 429 "Already rated this item", writes nothing and leaves rating:<id> and
\* rating_count:<id> as they were.
C8_RepeatRateRejected ==
  \A s \in Slots :
    LET r == req[s] IN
    (RateDone(r) /\ r.in.id # "" /\ IntegerRating(r.in.rating) /\ r.was.already) =>
      /\ r.resp.status = 429
      /\ r.resp.body = [ok |-> FALSE, error |-> "Already rated this item"]
      /\ r.puts = {}
      /\ \A k \in DOMAIN r.was.before : Get(SRM_COUNTS, k) = r.was.before[k]

\* A client that rated the item 5 rated it again with 1 and was rejected.
C8_Witness ==
  /\ RateDone(req[1]) /\ req[1].was.already /\ req[1].resp.status = 429
  /\ req[1].in.rating = IntNum(1)
  /\ SRM_COUNTS[RatingKey(req[1].in.id)] = "5.0"
  /\ SRM_COUNTS[RatingCountKey(req[1].in.id)] = "1"

\* The ratings accepted for the rated item: how many, and their sum in tenths.
RatedN == Count(hist.rates, RatedItem)

RatedSum == Count(hist.sum, RatedItem)

\* The stored average in tenths.
StoredRating == Number(Get(SRM_COUNTS, RatingKey(RatedItem))).num

Abs(d) == IF d < 0 THEN 0 - d ELSE d

\* The stored average is a one-decimal value nearest to the mean of the accepted
\* ratings: it lies within 0.05 of RatedSum / RatedN.
RoundedMean == 2 * Abs(StoredRating * RatedN - RatedSum) <= RatedN

\* C5 (as claimed): after any sequence of accepted ratings 1..5 handled one after
\* the other, rating:<id> is the mean of the accepted values rounded to one decimal.
C5_StoredIsRoundedMean ==
  (~InFlight(req[1]) /\ RatedN >= 1) => RoundedMean

\* C5 (amended): the same, for sequences of at most 6 accepted ratings.
C5_RoundedMeanUpToSix ==
  (~InFlight(req[1]) /\ RatedN >= 1 /\ RatedN <= 6) => RoundedMean

\* Six ratings 1,2,2,5,5,5 were accepted: the mean 3.33 is stored as 3.3.
C5_Witness ==
  /\ ~InFlight(req[1]) /\ RatedN = 6 /\ RatedSum = IntNum(20).num
  /\ SRM_COUNTS[RatingKey(RatedItem)] = "3.3"

\* The mean of the accepted ratings rounded half up to one decimal, in tenths.
MeanRounded == (2 * RatedSum + RatedN) \div (2 * RatedN)

\* C6: after N accepted ratings 1..5 handled one after the other, rating_count:<id>
\* holds N and rating:<id> differs from the rounded mean by at most 0.05 * N.
C6_DriftWithinTolerance ==
  (~InFlight(req[1]) /\ RatedN >= 1) =>
    /\ Get(SRM_COUNTS, RatingCountKey(RatedItem)) = Str(ToString(RatedN))
    /\ 2 * Abs(StoredRating - MeanRounded) <= RatedN

\* Seven ratings were accepted and the stored average is off the rounded mean.
C6_Witness ==
  /\ ~InFlight(req[1]) /\ RatedN = 7
  /\ SRM_COUNTS[RatingCountKey(RatedItem)] = "7"
  /\ StoredRating # MeanRounded

\* C2 (as claimed): in every interleaving, at most one like (resp. rate) request
\* of a client for an item is accepted and updates the counter between two
\* expiries of its marker.
C2_OneAcceptedPerWindow ==
  \A t \in DOMAIN window : window[t] <= 1

\* The keys whose values the data model declares non-decreasing.
Monotone(k) ==
  \E id \in {"1", "2"} : k \in {LikesKey(id), DownloadsKey(id), RatingCountKey(id)}

\* C3 (as claimed): from one state to the next, also with requests handled
\* concurrently, no key of the counter store disappears and the values of
\* likes:<id>, downloads:<id> and rating_count:<id> do not decrease.
C3_CountersNeverDecrease ==
  [][\A k \in DOMAIN SRM_COUNTS :
       /\ k \in DOMAIN SRM_COUNTS'
       /\ Monotone(k) => ~Lt(Number(Str(SRM_COUNTS'[k])), Number(Str(SRM_COUNTS[k])))]_vars

\* C10 (as claimed): in the collection /content returns, each of likes, downloads,
\* rating and totalRatings of every item is the live counter cast to a number when
\* the item's key exists with a non-empty value, else the snapshot's field, else 0
\* - also for an item that carries neither id nor number (which has no key).
C10_MergePrecedence ==
  \A s \in Slots :
    (req[s].pc = "done" /\ req[s].op = "content" /\ req[s].resp.status = 200) =>
      LET out == req[s].resp.body.items IN
      \A i \in DOMAIN out, f \in CounterFields :
        LET it == catalog[i]
            live == IF ItemId(it) = "" THEN Null
                    ELSE Get(SRM_COUNTS, CounterKey(f, ItemId(it)))
        IN out[i][f] = IF live # Null /\ live # Str("") THEN Number(live)
                       ELSE IF it[f] # Undefined THEN it[f]
                       ELSE Num(0)

\* A finished /content/<id> request that got the snapshot; r.was.items are the
\* items it got.
ItemDone(r) ==
  r.pc = "done" /\ r.op = "item" /\ r.in.id # "" /\ r.resp.status # 502

\* Some item has an id field or a number field whose text is id.
Listed(items, id) ==
  \E i \in DOMAIN items :
    \/ items[i].id # Undefined /\ String(items[i].id) = id
    \/ items[i].number # Undefined /\ String(items[i].number) = id

\* C11 (as claimed): /content/<id> answers 200 exactly when some catalog item has
\* an id field or a number field whose text equals the requested id, and answers
\* 404 with an error body when no item has.
C11_FoundIffListed ==
  \A s \in Slots :
    ItemDone(req[s]) =>
      /\ req[s].resp.status = 200 <=> Listed(req[s].was.items, req[s].in.id)
      /\ ~Listed(req[s].was.items, req[s].in.id) =>
           req[s].resp = Err(404, "Item not found")

\* C12 (as claimed): the likes, downloads, rating and totalRatings /content/<id>
\* returns for the item it found are those /content returns for that item over
\* the same counter store, whether the id or the number of the item matched.
C12_SameAsCollection ==
  \A s \in Slots :
    (ItemDone(req[s]) /\ req[s].resp.status = 200) =>
      LET i == Find(catalog, req[s].in.id)
          all == Merged(catalog,
                        [t \in (DOMAIN catalog) \X CounterFields |->
                           Get(SRM_COUNTS, CounterKey(t[2], ItemId(catalog[t[1]])))])
      IN \A f \in CounterFields : req[s].resp.body[f] = all[i][f]

\* A submission, and what it changed and called so far.
Submitted(r) == r.pc # "idle" /\ r.op = "submit"

CallsTo(r, call) == SelectSeq(r.calls, LAMBDA c : c.call = call)

NewAssets(r) == SubSeq(github.assets, Len(r.was.before.assets) + 1, Len(github.assets))

NewIssues(r) == SubSeq(github.issues, Len(r.was.before.issues) + 1, Len(github.issues))

\* The content type names multipart/form-data.
Multipart(h) == h.ct # Null /\ Includes(h.ct.str, "multipart/form-data")

\* A form entry that is absent or holds nothing but white space.
Blank(v) ==
  v = Undefined \/ \A i \in 1 .. Len(v.str) : SubSeq(v.str, i, i) \in White

\* C13: a submission that is not multipart is answered 415, a multipart one in
\* which title, category, game, description or author is absent or blank is
\* answered 400, and neither has made an external call (no captcha verification,
\* no release lookup or creation, no upload, no issue) or changed the repository.
C13_InvalidSubmitRejected ==
  \A s \in Slots :
    LET r == req[s] IN
    Submitted(r) =>
      LET blank == \E f \in RequiredFields : Blank(r.in.form[f]) IN
      /\ ~Multipart(r.in) => r.pc = "done" /\ r.resp.status = 415
      /\ (Multipart(r.in) /\ blank) => r.pc = "done" /\ r.resp.status = 400
      /\ (~Multipart(r.in) \/ blank) => r.calls = << >> /\ github = r.was.before

\* A multipart submission whose author is blank was answered 400, with a captcha
\* secret configured and a token given.
C13_Witness ==
  /\ Submitted(req[1]) /\ req[1].pc = "done"
  /\ Multipart(req[1].in) /\ req[1].in.form.author = Str(" \t")
  /\ Truthy(env.HCAPTCHA_SECRET)
  /\ req[1].resp = Err(400, "Missing required fields")

\* The File entries of the form's files field, in order.
Attached(h) == SelectSeq(h.files, LAMBDA f : f.key = "files")

\* C14: a submission is answered 200, with the number and URL of the issue, exactly
\* when it has created one issue; until then and in every other outcome it has
\* created none.  The issue is created after every attached file was uploaded,
\* and the files it lists are the assets the submission uploaded, one per
\* attached file, in the order of the attachments (none when nothing is attached).
C14_SuccessIffOneIssue ==
  \A s \in Slots :
    LET r == req[s] IN
    Submitted(r) =>
      LET issues == NewIssues(r)
          files == Attached(r.in)
      IN /\ Len(issues) = IF r.pc = "done" /\ r.resp.status = 200 THEN 1 ELSE 0
         /\ Len(issues) = 1 =>
              /\ r.resp.body.submissionId = issues[1].number
              /\ r.resp.body.issueUrl = "issues/" \o ToString(issues[1].number)
              /\ r.calls[Len(r.calls)] = [call |-> "issue", arg |-> "", ok |-> TRUE]
              /\ Len(issues[1].files) = Len(files)
              /\ \A i \in 1 .. Len(files) :
                   /\ issues[1].files[i].name = sanitize(files[i].name)
                   /\ issues[1].files[i].size = files[i].size
                   /\ NewAssets(r)[i] = [name |-> issues[1].files[i].name, size |-> files[i].size]
                   /\ CallsTo(r, "upload")[i] = [call |-> "upload", arg |-> sanitize(files[i].name),
                                                 ok |-> TRUE]
              /\ Len(NewAssets(r)) = Len(files)

\* A submission with two attached files and a File in another field was answered
\* 200: its issue lists the two uploaded assets.
C14_Witness ==
  /\ Submitted(req[1]) /\ req[1].pc = "done" /\ req[1].resp.status = 200
  /\ Len(req[1].in.files) = 3
  /\ Len(NewIssues(req[1])) = 1
  /\ Len(NewIssues(req[1])[1].files) = 2
  /\ NewIssues(req[1])[1].files[1].name = "a_b.zip"

\* The attached files larger than the configured maximum, by position.
Oversized(h) == {i \in 1 .. Len(Attached(h)) : Lt(MaxBytes, Attached(h)[i].size)}

FirstOversized(h) == CHOOSE i \in Oversized(h) : \A j \in Oversized(h) : i <= j

\* The form has no captcha token.
NoToken(h) == h.form.captchaToken \in {Undefined, Str("")}

\* The calls of r that came back not ok, the release lookup aside (a release
\* that is not found is created).
Failed(r) == SelectSeq(r.calls, LAMBDA c : ~c.ok /\ c.call # "release_get")

\* C15: when an attached file exceeds the configured maximum size, the upload of
\* the first such file is never begun and no file after it is uploaded, no issue
\* is created, and the submission is answered 413 unless an earlier step has
\* ended it (content type, required fields, captcha, release, upload of a file
\* before the oversized one).
C15_OversizedRejected ==
  \A s \in Slots :
    LET r == req[s] IN
    (Submitted(r) /\ Oversized(r.in) # {}) =>
      /\ Len(CallsTo(r, "upload")) < FirstOversized(r.in)
      /\ Len(NewAssets(r)) < FirstOversized(r.in)
      /\ CallsTo(r, "issue") = << >> /\ NewIssues(r) = << >>
      /\ r.pc = "done" => r.resp.status # 200
      /\ ( /\ r.pc = "done" /\ Multipart(r.in)
           /\ \A f \in RequiredFields : ~Blank(r.in.form[f])
           /\ ~(Truthy(env.HCAPTCHA_SECRET) /\ NoToken(r.in))
           /\ Failed(r) = << >> ) => r.resp.status = 413

\* A submission whose second file is oversized was answered 413 after the first
\* file was uploaded.
C15_Witness ==
  /\ Submitted(req[1]) /\ req[1].pc = "done" /\ req[1].resp.status = 413
  /\ FirstOversized(req[1].in) = 2
  /\ Len(NewAssets(req[1])) = 1 /\ Len(req[1].in.files) = 3

\* C16 (as claimed): when an attached file exceeds the configured maximum size, no
\* file of the submission is uploaded, the files before the oversized one included.
C16_NothingUploaded ==
  \A s \in Slots :
    (Submitted(req[s]) /\ Oversized(req[s].in) # {}) =>
      CallsTo(req[s], "upload") = << >> /\ NewAssets(req[s]) = << >>

\* C17: when the upload of the k-th attached file fails, the submission ends with
\* 502: that upload is its last call (no later upload, no issue, no call that
\* removes an asset), no issue is created, and the k-1 assets uploaded before
\* are in the release.
C17_FailedUploadAborts ==
  \A s \in Slots :
    LET r == req[s]
        ups == CallsTo(r, "upload")
    IN (Submitted(r) /\ \E i \in 1 .. Len(ups) : ~ups[i].ok) =>
         /\ r.pc = "done" /\ r.resp.status = 502
         /\ \A i \in 1 .. Len(ups) : ups[i].ok <=> i < Len(ups)
         /\ r.calls[Len(r.calls)] = ups[Len(ups)]
         /\ CallsTo(r, "issue") = << >> /\ NewIssues(r) = << >>
         /\ NewAssets(r) = [i \in 1 .. Len(ups) - 1 |->
                              [name |-> sanitize(Attached(r.in)[i].name),
                               size |-> Attached(r.in)[i].size]]

\* The upload of the second file failed: the submission was answered 502 and the
\* first asset is in the release.
C17_Witness ==
  /\ Submitted(req[1]) /\ req[1].pc = "done" /\ req[1].resp.status = 502
  /\ Len(CallsTo(req[1], "upload")) = 2
  /\ NewAssets(req[1]) = << [name |-> "a_b.zip", size |-> IntNum(2)] >>

\* C18: when the release cannot be created, the submission ends there without
\* success: no file is uploaded and no issue is created.
C18_NoReleaseAborts ==
  \A s \in Slots :
    LET r == req[s] IN
    (Submitted(r) /\ \E i \in 1 .. Len(r.calls) :
                       r.calls[i].call = "release_post" /\ ~r.calls[i].ok) =>
      /\ r.pc = "done" /\ r.resp.status # 200
      /\ r.calls[Len(r.calls)].call = "release_post"
      /\ CallsTo(r, "upload") = << >> /\ NewAssets(r) = << >>
      /\ CallsTo(r, "issue") = << >> /\ NewIssues(r) = << >>

\* The release could not be created for a submission with attached files.
C18_Witness ==
  /\ Submitted(req[1]) /\ req[1].pc = "done"
  /\ Len(Attached(req[1].in)) = 2 /\ req[1].calls # << >>
  /\ req[1].calls[Len(req[1].calls)] = [call |-> "release_post", arg |-> "", ok |-> FALSE]
  /\ req[1].resp = Err(500, "Failed to create release")
  /\ github = req[1].was.before

\* C19 (as claimed): a submission whose release could not be created, or whose
\* issue could not be created, is answered 502.
C19_UpstreamFailureIs502 ==
  \A s \in Slots :
    LET r == req[s] IN
    (Submitted(r) /\ r.pc = "done"
       /\ \E i \in 1 .. Len(r.calls) :
            r.calls[i].call \in {"release_post", "issue"} /\ ~r.calls[i].ok) =>
      r.resp.status = 502

\* C20: for a multipart submission with its required fields.  With a captcha
\* secret configured, the verification service is the first service called; a
\* submission without token is answered 400 "Captcha failed" without any call,
\* and one whose token the service rejects is answered 400 "Captcha failed" with
\* no call after the verification (no release lookup or creation, no upload, no
\* issue).  Without a secret the verification service is never called and the
\* submission is not failed for its captcha: it goes on to the release lookup.
C20_CaptchaGate ==
  \A s \in Slots :
    LET r == req[s] IN
    (Submitted(r) /\ Multipart(r.in) /\ \A f \in RequiredFields : ~Blank(r.in.form[f])) =>
      IF Truthy(env.HCAPTCHA_SECRET)
      THEN /\ NoToken(r.in) =>
                /\ r.pc = "done" /\ r.resp = Err(400, "Captcha failed")
                /\ r.calls = << >> /\ github = r.was.before
           /\ r.calls # << >> => r.calls[1].call = "siteverify"
           /\ (r.calls # << >> /\ ~r.calls[1].ok) =>
                /\ r.pc = "done" /\ r.resp = Err(400, "Captcha failed")
                /\ Len(r.calls) = 1 /\ github = r.was.before
      ELSE /\ CallsTo(r, "siteverify") = << >>
           /\ r.pc = "done" =>
                /\ r.resp # Err(400, "Captcha failed")
                /\ r.calls[1].call = "release_get"

\* With a secret configured, the service rejected the token of a submission with
\* attached files, which was answered 400.
C20_Witness ==
  /\ Submitted(req[1]) /\ req[1].pc = "done"
  /\ Truthy(env.HCAPTCHA_SECRET) /\ Len(Attached(req[1].in)) = 2
  /\ req[1].calls = << [call |-> "siteverify", arg |-> "", ok |-> FALSE] >>
  /\ req[1].resp = Err(400, "Captcha failed")

\* The place of an external step in the order of a submission.
StepRank(call) ==
  CASE call = "siteverify" -> 1
    [] call = "release_get" -> 2
    [] call = "release_post" -> 3
    [] call = "upload" -> 4
    [] OTHER -> 5

\* C21: the external calls of a submission come after its validation and in the
\* order captcha check, release lookup, release creation, uploads, issue
\* creation.  The captcha check, the lookup, the creation of the release and the
\* creation of the issue are each called at most once, the release is created
\* only after a lookup that did not find it, the i-th upload is that of the i-th
\* attached file, and no call follows a call that failed.
C21_StepsInOrder ==
  \A s \in Slots :
    LET r == req[s] IN
    (Submitted(r) /\ r.calls # << >>) =>
      /\ Multipart(r.in) /\ \A f \in RequiredFields : ~Blank(r.in.form[f])
      /\ \A i, j \in 1 .. Len(r.calls) :
           i < j => \/ StepRank(r.calls[i].call) < StepRank(r.calls[j].call)
                    \/ r.calls[i].call = "upload" /\ r.calls[j].call = "upload"
      /\ \A i \in 1 .. Len(r.calls) :
           /\ i < Len(r.calls) => r.calls[i].ok \/ r.calls[i].call = "release_get"
           /\ r.calls[i].call = "release_post" =>
                i > 1 /\ r.calls[i - 1] = [call |-> "release_get", arg |-> "", ok |-> FALSE]
           /\ (r.calls[i].call \in {"upload", "issue"} /\ r.calls[i - 1].call = "release_get") =>
                r.calls[i - 1].ok
      /\ r.calls[1].call \in {"siteverify", "release_get"}
      /\ LET ups == CallsTo(r, "upload") IN
         /\ Len(ups) <= Len(Attached(r.in))
         /\ \A i \in 1 .. Len(ups) : ups[i].arg = sanitize(Attached(r.in)[i].name)

\* A submission went through every step: captcha check, a lookup that found no
\* release, the creation of the release, two uploads and the issue.
C21_Witness ==
  /\ Submitted(req[1]) /\ req[1].pc = "done" /\ req[1].resp.status = 200
  /\ Len(req[1].calls) = 6
  /\ req[1].calls[1].call = "siteverify" /\ req[1].calls[3].call = "release_post"
  /\ req[1].calls[5].call = "upload" /\ req[1].calls[6].call = "issue"

\* C22: a download whose asset address names a host outside the allow-list is
\* answered 400 "Disallowed asset host", and one whose asset text is not an
\* address is answered 400 "Invalid asset url"; such a request is answered on
\* arrival: it never waits for an upstream fetch, never reads a download
\* counter and writes no key.
C22_DisallowedAssetRejected ==
  \A s \in Slots :
    (req[s].op = "download" /\ Hostname(req[s].in.asset) \notin ALLOWED_ASSET_HOSTS) =>
      /\ req[s].pc = "done"
      /\ req[s].puts = {}
      /\ req[s].resp = Err(400, IF AfterScheme(req[s].in.asset) = "" THEN "Invalid asset url"
                                ELSE "Disallowed asset host")

\* After a download of item 1 was counted, a download of item 1 from an address
\* that carries an allowed name in its credentials only was refused.
C22_Witness ==
  /\ req[1].op = "download" /\ req[1].pc = "done"
  /\ req[1].in = [id |-> "1", asset |-> "https://github.com@evil.example/a.zip"]
  /\ req[1].resp = Err(400, "Disallowed asset host")
  /\ Get(SRM_COUNTS, DownloadsKey("1")) = Str("1")
  /\ Count(hist.downloads, "1") = 1

\* A finished download report.
TrackDone(r) == r.pc = "done" /\ r.op = "track"

\* C23, state part: a download report with a non-empty itemId is answered 200
\* with the value downloads:<itemId> held (0 when absent) plus 1, which is what
\* the key then holds, having written that key only and without ever waiting for
\* an outbound fetch; a report with an empty itemId and a like with an empty id
\* are answered 400 and have written no key.
C23_Answers ==
  \A s \in Slots :
    LET r == req[s] IN
    /\ r.op = "track" => r.pc \in {"track_read", "track_write", "done"}
    /\ (TrackDone(r) /\ r.in.id # "") =>
         LET k == DownloadsKey(r.in.id) IN
         /\ r.resp.status = 200
         /\ r.resp.body.downloads = Add(Held(r.was.before[k]), IntNum(1))
         /\ r.resp.body.itemId = r.in.id
         /\ Get(SRM_COUNTS, k) = Str(String(r.resp.body.downloads))
         /\ r.puts = {k}
    /\ (TrackDone(r) /\ r.in.id = "") => r.resp = Err(400, "Missing itemId") /\ r.puts = {}
    /\ (r.op = "like" /\ r.in.id = "") =>
         r.pc = "done" /\ r.resp = Err(400, "Missing id") /\ r.puts = {}

\* C23, step part: the arrival of a report with an empty itemId or of a like
\* with an empty id answers it and changes neither store, and the steps of a
\* report change no key but its downloads counter.
C23_Steps ==
  \A s \in Slots :
    /\ (req[s].pc = "idle" /\ req'[s].pc = "done" /\ req'[s].op \in {"track", "like"}) =>
         /\ req'[s].in.id = "" /\ req'[s].resp.status = 400
         /\ SRM_COUNTS' = SRM_COUNTS /\ SRM_RATELIMIT' = SRM_RATELIMIT
    /\ (req[s].op = "track" /\ req[s].pc # "done" /\ req'[s] # req[s]) =>
         /\ SRM_RATELIMIT' = SRM_RATELIMIT
         /\ \A k \in (DOMAIN SRM_COUNTS \cup DOMAIN SRM_COUNTS') \ {DownloadsKey(req[s].in.id)} :
              Get(SRM_COUNTS', k) = Get(SRM_COUNTS, k)

\* C23: a download report with a non-empty itemId adds exactly 1 to
\* downloads:<itemId>, returns the new total and fetches nothing; a report with
\* an empty itemId and a like with an empty id fail with 400 and write nothing.
C23_TrackAddsOne == []C23_Answers /\ [][C23_Steps]_vars

\* A second report for item 1 was answered with 2 downloads.
C23_Witness ==
  /\ TrackDone(req[1]) /\ req[1].in.id = "1"
  /\ req[1].resp.status = 200 /\ req[1].resp.body.downloads = IntNum(2)
  /\ req[1].was.before[DownloadsKey("1")] = Str("1")

\* A finished stats request that was answered 200.
StatsDone(r) == r.pc = "done" /\ r.op = "stats" /\ r.resp.status = 200

\* The downloads of an item as the claim counts them: the live counter when the
\* store holds one for the item, else the snapshot's number, else 0.
LiveOrSnapshot(it) ==
  IF ItemId(it) # "" /\ DownloadsKey(ItemId(it)) \in DOMAIN SRM_COUNTS
  THEN Held(Get(SRM_COUNTS, DownloadsKey(ItemId(it))))
  ELSE IF IsNum(it.downloads) THEN it.downloads ELSE Num(0)

RECURSIVE DownloadsOf(_, _)
DownloadsOf(items, n) ==
  IF n = 0 THEN 0 ELSE DownloadsOf(items, n - 1) + LiveOrSnapshot(items[n]).num

\* The bucket of an item in the table of a field.
Bucket(it, field) == IF IsStr(it[field]) /\ it[field].str # "" THEN it[field].str ELSE "other"

\* The table of a field counts each item once, in its bucket.
Frequencies(table, items, field) ==
  /\ DOMAIN table = {Bucket(items[i], field) : i \in DOMAIN items}
  /\ \A b \in DOMAIN table :
       table[b] = IntNum(Cardinality({i \in DOMAIN items : Bucket(items[i], field) = b}))
  /\ Total([b \in DOMAIN table |-> table[b].num \div Scale]) = Len(items)

\* C24: the stats answered from one catalog fetch give the number of items, the
\* sum over the items of the live downloads counter when present, else the
\* snapshot's downloads, else 0, and tables of categories and of games in which
\* an item without category (game) counts under "other" and whose counts sum to
\* the number of items.
C24_StatsTotals ==
  \A s \in Slots :
    StatsDone(req[s]) =>
      LET items == req[s].was.items
          body == req[s].resp.body
      IN /\ body.totalItems = IntNum(Len(items))
         /\ body.totalDownloads = Num(DownloadsOf(items, Len(items)))
         /\ Frequencies(body.categories, items, "category")
         /\ Frequencies(body.games, items, "game")

\* Stats of the six-item snapshot with a live counter for item 1 only: 3 live
\* downloads, 2, 4 and 6 from the snapshot, and two items count under "other".
C24_Witness ==
  /\ StatsDone(req[1])
  /\ req[1].resp.body.totalItems = IntNum(6)
  /\ req[1].resp.body.totalDownloads = IntNum(15)
  /\ req[1].resp.body.categories["other"] = IntNum(2)
  /\ req[1].resp.body.games["other"] = IntNum(1)

\* The response to a read of a catalog whose fetch did not succeed.
Upstream502 == Err(502, "Upstream fetch failed")

\* C25, as a property of every step of a read request: when the fetch of the
\* catalog is not ok the request is answered 502; when it is ok but its body is
\* malformed or has no item list, the collection is answered as an empty list
\* with 200, the stats with zero totals and empty tables, and an item with 404;
\* and a 502 is the answer of a request that was waiting for the catalog, that
\* is, of one that has read no counter.
C25_Steps ==
  \A s \in Slots :
    /\ ContentFetch(s, "fail") => req'[s].pc = "done" /\ req'[s].resp = Upstream502
    /\ ItemFetch(s, "fail") => req'[s].pc = "done" /\ req'[s].resp = Upstream502
    /\ StatsFetch(s, "fail") => req'[s].pc = "done" /\ req'[s].resp = Upstream502
    /\ ContentFetch(s, "malformed") =>
         req'[s].pc = "done" /\ req'[s].resp = Ok([items |-> << >>])
    /\ ItemFetch(s, "malformed") =>
         req'[s].pc = "done" /\ req'[s].resp = Err(404, "Item not found")
    /\ StatsFetch(s, "malformed") =>
         /\ req'[s].pc = "done" /\ req'[s].resp.status = 200
         /\ req'[s].resp.body = [totalItems |-> IntNum(0), totalDownloads |-> IntNum(0),
                                 categories |-> << >>, games |-> << >>]
    /\ (req[s].pc # "done" /\ req'[s].pc = "done" /\ req'[s].resp.status = 502) =>
         req[s].pc \in {"content_fetch", "item_fetch", "stats_fetch"}

\* C25: the three reads fail with 502 when the fetch of the catalog fails,
\* without reading a counter, and take a malformed body as an empty collection.
C25_FetchOutcomes == [][C25_Steps]_vars

\* With a snapshot of six items published, a stats request whose fetch returned
\* a malformed body was answered 200 with no item.
C25_Witness ==
  /\ catalog = ReadCatalog
  /\ StatsDone(req[1]) /\ req[1].resp.body.totalItems = IntNum(0)
  /\ req[1].was.items = << >>

\* C27, state part: the store holds exactly the markers put and not yet
\* expired, each put once, with a time to live of one day for a like and seven
\* days for a rating; the marker of a key was put by a like (rating) that was
\* accepted or is under way; a request answered 429 has put nothing; and a like
\* or a valid rating by a client whose marker is absent or has expired is
\* answered 200.
C27_Markers ==
  /\ DOMAIN hist.markers = DOMAIN SRM_RATELIMIT
  /\ \A k \in DOMAIN SRM_RATELIMIT :
       /\ hist.markers[k].puts = 1
       /\ \/ \E t \in DOMAIN window :
               /\ MarkerKey(t) = k /\ window[t] = 1
               /\ hist.markers[k].ttl = IF t[1] = "like" THEN 86400 ELSE 604800
          \/ \E s \in Slots :
               /\ InFlight(req[s]) /\ k \in req[s].puts /\ k = req[s].in.key
               /\ hist.markers[k].ttl = IF req[s].op = "like" THEN 86400 ELSE 604800
  /\ \A s \in Slots :
       LET r == req[s] IN
       (r.pc = "done" /\ r.op \in {"like", "rate"}) =>
         /\ r.resp.status = 429 => r.was.already /\ r.puts = {}
         /\ (r.resp.status # 400 /\ ~r.was.already) =>
              r.resp.status = 200 /\ r.in.key \in r.puts
         /\ r.resp.status = 400 => r.puts = {}

\* C27, step part: a marker appears or is put again only by the step of a like
\* or rating that found no marker, and disappears only when it expires, which
\* is no step of a request.
C27_Steps ==
  \A k \in DOMAIN hist.markers \cup DOMAIN hist'.markers :
    /\ (k \in DOMAIN hist'.markers /\ (k \notin DOMAIN hist.markers
                                       \/ hist'.markers[k] # hist.markers[k])) =>
         \E s \in Slots :
           /\ req[s].pc \in {"like_mark", "rate_mark"} /\ req'[s] # req[s]
           /\ req[s].in.key = k /\ ~req[s].was.already
           /\ k \notin DOMAIN SRM_RATELIMIT
    /\ k \notin DOMAIN hist'.markers => req' = req

\* C27: a marker is created only by an accepted like or rating, lives one day
\* (seven days for a rating) from its creation, is removed only by its expiry
\* and is not put again by a repeat that is refused; after its expiry the next
\* like (rating) by the client for the item is accepted.
C27_MarkerLifecycle == []C27_Markers /\ [][C27_Steps]_vars

\* A like was refused while the marker of the client's earlier like, put once
\* with one day to live, was in the store, and a rating by the same client of
\* the same item had put its own marker with seven days to live.
C27_Witness ==
  /\ req[1].pc = "done" /\ req[1].op = "like" /\ req[1].resp.status = 429
  /\ req[1].in.key \in DOMAIN hist.markers
  /\ hist.markers[req[1].in.key] = [ttl |-> 86400, puts |-> 1]
  /\ RateKey(req[1].in.id, req[1].in.client) \in DOMAIN hist.markers
  /\ hist.markers[RateKey(req[1].in.id, req[1].in.client)].ttl = 604800

\* The client identity the claim gives a request with headers h.
Identity(h) ==
  IF h.cf # Null THEN h.cf.str ELSE IF h.xff # Null THEN h.xff.str ELSE "0.0.0.0"

\* C28, step part: a like or rating that arrives with headers h is handled
\* under the identity of its connecting-IP header when it has one, else of its
\* forwarded-for header, else under 0.0.0.0, and its marker key is built from it.
C28_Steps ==
  \A h \in Headers :
    /\ \A body \in LikeBodies :
         LikeStart(1, body, h) =>
           /\ req'[1].in.client = Identity(h)
           /\ req'[1].in.key = "like:" \o req'[1].in.id \o ":" \o Identity(h)
    /\ \A i \in IdInputs, v \in MarkRatings :
         RateStart(1, [id |-> i, rating |-> v], h) =>
           /\ req'[1].in.client = Identity(h)
           /\ req'[1].in.key = "rate:" \o req'[1].in.id \o ":" \o Identity(h)

\* C28, state part: after a like (rating) under the identity 0.0.0.0 was
\* accepted and while its marker has not expired, a like (rating) of the same
\* item under that identity is answered 429, whatever other clients did.
C28_SharedBucket ==
  \A s \in Slots :
    LET r == req[s] IN
    (r.pc = "done" /\ r.op \in {"like", "rate"} /\ r.resp.status # 400
       /\ r.in.client = "0.0.0.0" /\ r.was.already) =>
      r.resp.status = 429 /\ r.puts = {}

\* C28: the client identity in a marker is the connecting-IP header, else the
\* forwarded-for header, else 0.0.0.0, so that requests without either header
\* share one marker per item and action.
C28_ClientIdentity == []C28_SharedBucket /\ [][C28_Steps]_vars

\* A rating without address headers was refused on an item that another
\* request without address headers had rated, while a client with an address
\* had liked the item.
C28_Witness ==
  /\ req[1].pc = "done" /\ req[1].op = "rate" /\ req[1].resp.status = 429
  /\ req[1].in.client = "0.0.0.0"
  /\ Count(window, <<"rate", req[1].in.id, "0.0.0.0">>) = 1
  /\ \E c \in {"a", "b"} : Count(window, <<"like", req[1].in.id, c>>) = 1

\* The three reads.
Reads == {"content", "item", "stats"}

\* C26: every step of a collection, item or stats request, its arrival
\* included, leaves each key of the counter store and of the rate-limit store
\* as it was, and no step of any request changes the catalog.
C26_Steps ==
  /\ catalog' = catalog
  /\ \A s \in Slots :
       (req'[s] # req[s] /\ (req[s].op \in Reads \/ req'[s].op \in Reads)) =>
         SRM_COUNTS' = SRM_COUNTS /\ SRM_RATELIMIT' = SRM_RATELIMIT

C26_ReadsWriteNothing == [][C26_Steps]_vars

\* The collection was answered after a like had been counted and its marker
\* stored.
C26_Witness ==
  /\ req[1].pc = "done" /\ req[1].op = "content" /\ req[1].resp.status = 200
  /\ "likes:1" \in DOMAIN SRM_COUNTS
  /\ SRM_RATELIMIT # EmptyStore

\* C29: every response of the worker whose status is not a success status has
\* a JSON body, an object with ok: false and a message.
C29_ErrorsAreJson ==
  \A s \in Slots :
    (req[s].pc = "done" /\ "uncaught" \notin DOMAIN req[s].resp
       /\ req[s].resp.status \notin 200 .. 299) =>
      /\ req[s].resp.json
      /\ req[s].resp.body.ok = FALSE
      /\ req[s].resp.body.error # ""

\* The same for the responses built by err(): those of every route but the
\* download proxy's pass-through and the answer to an unmatched route.
C29_ErrResponsesAreJson ==
  \A s \in Slots :
    (req[s].pc = "done" /\ "uncaught" \notin DOMAIN req[s].resp
       /\ req[s].resp.status \notin 200 .. 299) =>
      \/ req[s].resp.json /\ req[s].resp.body.ok = FALSE /\ req[s].resp.body.error # ""
      \/ req[s].op = "unmatched" /\ req[s].resp.body = "Not found"
      \/ req[s].op = "download" /\ req[s].resp.body = "Asset not found"

\* A request for a path that has no route was answered 404 with a text body.
C29_Witness ==
  /\ req[1].pc = "done" /\ req[1].op = "unmatched"
  /\ req[1].resp = [status |-> 404, json |-> FALSE, body |-> "Not found"]

\* The message of the exception raised while the request r was handled, "" when
\* none was raised.
Raised(r) ==
  IF r.op = "fetch" THEN r.in.thrown
  ELSE IF r.op = "submit" /\ r.calls # << >> /\ ~r.calls[Len(r.calls)].ok
          /\ r.calls[Len(r.calls)].call = "release_post"
       THEN "Failed to create release"
  ELSE IF r.op = "submit" /\ r.calls # << >> /\ ~r.calls[Len(r.calls)].ok
          /\ r.calls[Len(r.calls)].call = "issue"
       THEN "Issue creation failed"
  ELSE ""

\* C30: a request during whose handling an exception was raised, by whichever
\* step, is answered 500 with a JSON error that carries the message of the
\* exception.
C30_ExceptionsCaught ==
  \A s \in Slots :
    (req[s].pc = "done" /\ Raised(req[s]) # "") => req[s].resp = Err(500, Raised(req[s]))

\* The same for the exceptions raised inside the try block of fetch().
C30_HandlerExceptionsCaught ==
  \A s \in Slots :
    (req[s].pc = "done" /\ req[s].op # "fetch" /\ Raised(req[s]) # "") =>
      req[s].resp = Err(500, Raised(req[s]))

\* The exception of corsHeaders left the worker: the allow-list has an entry
\* that is no regular expression and no earlier entry matched the origin.
C30_Witness ==
  /\ req[1].pc = "done" /\ req[1].op = "fetch"
  /\ "uncaught" \in DOMAIN req[1].resp
  /\ req[1].in.origin = Str("https://srm.pages.dev")

\* The submission of unit s calls POST /releases in this step.
CreatesRelease(s) ==
  /\ req[s].pc = "submit_release_post"
  /\ req'[s].pc # "submit_release_post"

\* C31: in every interleaving of submissions, POST /releases is called only
\* when the repository has no release with this month's tag.
C31_CreateOnlyWhenAbsent ==
  [][\A s \in Slots : CreatesRelease(s) => ~github.release]_vars

\* Two submissions looked the release up while there was none; the first
\* created it, and the creation the second then asked for was refused.
C31_Witness ==
  /\ github.release
  /\ req[1].pc = "done" /\ req[1].op = "submit" /\ req[2].op = "submit"
  /\ req[1].was.before.release = FALSE /\ req[2].was.before.release = FALSE
  /\ req[1].resp = Err(500, "Failed to create release")
  /\ \E i \in 1 .. Len(req[2].calls) :
       req[2].calls[i] = [call |-> "release_post", arg |-> "", ok |-> TRUE]

\* A finished download from an allowed host.
ProxyDone(r) ==
  r.pc = "done" /\ r.op = "download" /\ Hostname(r.in.asset) \in ALLOWED_ASSET_HOSTS

\* C32, state part: a download from an allowed host that was answered 200 with
\* a non-empty id has written downloads:<id> only, one above what the key held
\* (0 when absent); one with an empty id, and one the upstream refused, has
\* written nothing.
C32_Answers ==
  \A s \in Slots :
    LET r == req[s]
        k == DownloadsKey(r.in.id)
    IN ProxyDone(r) =>
         /\ (r.resp.status = 200 /\ r.in.id # "") =>
              /\ r.puts = {k}
              /\ Held(Get(SRM_COUNTS, k)) = Add(Held(r.was.before[k]), IntNum(1))
         /\ (r.resp.status # 200 \/ r.in.id = "") =>
              /\ r.puts = {}
              /\ Get(SRM_COUNTS, k) = r.was.before[k]
         /\ r.resp.status # 200 => r.resp.body = "Asset not found"

\* C32, step part: when the upstream answers with a status that is no success,
\* the request ends with that status and neither store changes; when it answers
\* with a success, the request goes on; and no step of a download changes
\* another key than downloads:<id>.
C32_Steps ==
  \A s \in Slots :
    /\ \A status \in UpstreamStatuses :
         DownloadFetch(s, status) =>
           /\ SRM_COUNTS' = SRM_COUNTS /\ SRM_RATELIMIT' = SRM_RATELIMIT
           /\ status \notin 200 .. 299 => req'[s].pc = "done" /\ req'[s].resp.status = status
           /\ status \in 200 .. 299 =>
                \/ req'[s].pc = "download_read" /\ req[s].in.id # ""
                \/ req'[s].pc = "done" /\ req'[s].resp.status = 200 /\ req[s].in.id = ""
    /\ (req[s].op = "download" /\ req'[s] # req[s]) =>
         /\ SRM_RATELIMIT' = SRM_RATELIMIT
         /\ \A k \in (DOMAIN SRM_COUNTS \cup DOMAIN SRM_COUNTS') \ {DownloadsKey(req[s].in.id)} :
              Get(SRM_COUNTS', k) = Get(SRM_COUNTS, k)

\* C32: with requests handled one after the other, a download from an allowed
\* host adds exactly 1 to downloads:<id> only when id is not empty and the
\* upstream fetch succeeded; a status of the upstream that is no success is
\* returned as it is and no counter is written.
C32_CountedOnSuccess == []C32_Answers /\ [][C32_Steps]_vars

\* After one download of item 1 was counted, a second one was refused by the
\* upstream with 503 and left the counter at 1.
C32_Witness ==
  /\ ProxyDone(req[1]) /\ req[1].in.id = "1" /\ req[1].resp.status = 503
  /\ Get(SRM_COUNTS, DownloadsKey("1")) = Str("1")
  /\ Count(hist.downloads, "1") = 1

\* The outcomes a submission ends in.
Terminal(resp) ==
  \/ resp = Err(415, "Use multipart/form-data")
  \/ resp = Err(400, "Missing required fields")
  \/ resp = Err(400, "Captcha failed")
  \/ resp.status \in {413, 502} /\ resp.json /\ resp.body.ok = FALSE
  \/ resp \in {Err(500, "Failed to create release"), Err(500, "Issue creation failed")}
  \/ resp.status = 200 /\ resp.body.ok = TRUE

\* C33: when every external call returns, a submission that has arrived ends,
\* and a submission that has ended has one response, which is 415, 400 for
\* missing fields, 400 for a failed captcha, 413, 502, 500 or 200.
C33_SubmitEnds ==
  /\ [](\A s \in Slots : (Submitted(req[s]) /\ req[s].pc = "done") => Terminal(req[s].resp))
  /\ (Submitted(req[1]) /\ req[1].pc # "done")
       ~> (Submitted(req[1]) /\ req[1].pc = "done" /\ Terminal(req[1].resp))

\* A submission ended with 502 at its third file, after the verification of its
\* captcha, the creation of the release and two uploads.
C33_Witness ==
  /\ Submitted(req[1]) /\ req[1].pc = "done" /\ req[1].resp.status = 502
  /\ Len(req[1].calls) = 6
  /\ req[1].calls[1].call = "siteverify" /\ req[1].calls[3].call = "release_post"
  /\ ~req[1].calls[6].ok

\* C34: in every interleaving of likes of one item, likes:<id> is at most its
\* initial value plus the number of likes accepted so far, and the total every
\* accepted like returns is at least the initial value plus 1 and at most the
\* initial value plus the number of likes accepted.
C34_LikesNeverInvented ==
  /\ Lt(Held(Get(SRM_COUNTS, LikesKey("1"))), IntNum(InitialLikes + Count(hist.likes, "1") + 1))
  /\ \A s \in Slots :
       (LikeDone(req[s]) /\ req[s].resp.status = 200) =>
         /\ Lt(IntNum(InitialLikes), req[s].resp.body.likes)
         /\ Lt(req[s].resp.body.likes, IntNum(InitialLikes + Count(hist.likes, "1") + 1))

\* Two likes by different clients were accepted and one of them was lost: both
\* returned the initial value plus 1, which is what the key holds.
C34_Witness ==
  /\ \A s \in {1, 2} :
       /\ LikeDone(req[s]) /\ req[s].resp.status = 200
       /\ req[s].resp.body.likes = IntNum(InitialLikes + 1)
  /\ req[1].in.client # req[2].in.client
  /\ Count(hist.likes, "1") = 2
  /\ Get(SRM_COUNTS, LikesKey("1")) = Str(String(IntNum(InitialLikes + 1)))

\* The rating key of item 1 holds a one-decimal value in 1.0 .. 5.0.
InRange(v) ==
  /\ v # Undefined /\ v # Null
  /\ IsNum(Number(v))
  /\ Number(v).num >= IntNum(1).num /\ Number(v).num <= IntNum(5).num

\* C35 (as claimed): with every accepted rating an integer in 1..5, in every
\* state in which rating_count:<id> is at least 1 and rating:<id> is stored, the
\* stored rating lies in 1.0 .. 5.0, however the reads and writes of concurrent
\* rate requests interleave.
C35_RatingInRange ==
  LET count == Get(SRM_COUNTS, RatingCountKey("1"))
      rating == Get(SRM_COUNTS, RatingKey("1"))
  IN (Lt(IntNum(0), Held(count)) /\ RatingKey("1") \in DOMAIN SRM_COUNTS) => InRange(rating)

\* Two rate requests of item 1 were accepted, the second with the value 1; it
\* read the rating before the first wrote it and the count after: the store
\* holds rating 0.5 with count 2.
C35_Witness ==
  /\ \A s \in {1, 2} : RateDone(req[s]) /\ req[s].resp.status = 200
  /\ req[1].in.rating = IntNum(5) /\ req[2].in.rating = IntNum(1)
  /\ Get(SRM_COUNTS, RatingKey("1")) = Str("0.5")
  /\ Get(SRM_COUNTS, RatingCountKey("1")) = Str("2")

\* The counter store after k rate requests of item 1 with the value 5, each
\* completed before the next began.
RECURSIVE RatedStore(_)
RatedStore(k) ==
  IF k = 0 THEN EmptyStore
  ELSE LET st == RatedStore(k - 1)
           put == RatePuts(Get(st, RatingKey("1")), Get(st, RatingCountKey("1")), IntNum(5))
       IN Put(Put(st, RatingKey("1"), put.rating), RatingCountKey("1"), put.rating_count)

\* The (rating, totalRatings) pair the item endpoint returns for item 1 when all
\* its gets are served from the store st.
PairOf(st) ==
  LET it == Enriched(catalog[1], [f \in CounterFields |-> Get(st, CounterKey(f, "1"))])
  IN <<it.rating, it.totalRatings>>

\* C36 (as claimed): the (rating, totalRatings) pair a read of an item returns
\* is the pair that held after some whole number of completed rate requests,
\* also while a rate request is in progress.
C36_PairFromOneRequest ==
  \A s \in Slots :
    (ItemDone(req[s]) /\ req[s].resp.status = 200) =>
      <<req[s].resp.body.rating, req[s].resp.body.totalRatings>>
        \in {PairOf(RatedStore(k)) : k \in 0 .. MaxRates}

\* A read of item 1 returned the snapshot's rating 4.5 together with the count 1
\* written by a rate request: the read's get of rating:1 preceded the request's
\* put of the rating and its get of rating_count:1 followed the put of the count.
C36_Witness ==
  \E s \in Slots :
    /\ ItemDone(req[s]) /\ req[s].resp.status = 200
    /\ req[s].resp.body.rating = Num(45)
    /\ req[s].resp.body.totalRatings = IntNum(1)

\* C37 (as claimed): a like request that has stored its marker and has ended
\* has written likes:<id>, and a rate request that has stored its marker and has
\* ended has written rating:<id> and rating_count:<id>, also when a store
\* operation fails part-way.
C37_MarkedImpliesCounted ==
  \A s \in Slots :
    (req[s].pc = "done" /\ req[s].op \in {"like", "rate"} /\ req[s].in.key \in req[s].puts) =>
      IF req[s].op = "like" THEN LikesKey(req[s].in.id) \in req[s].puts
      ELSE {RatingKey(req[s].in.id), RatingCountKey(req[s].in.id)} \subseteq req[s].puts

\* A like ended with 500 after its marker was stored: the marker is in the
\* rate-limit store, no like of the item was ever counted and likes:1 is absent.
C37_Witness ==
  /\ req[1].pc = "done" /\ req[1].op = "like" /\ req[1].resp.status = 500
  /\ req[1].in.key \in DOMAIN SRM_RATELIMIT
  /\ req[1].in.key \in req[1].puts
  /\ Count(hist.likes, "1") = 0
  /\ LikesKey("1") \notin DOMAIN SRM_COUNTS

\* The keys of store whose value differs between the two states of a step.
Changed(before, after) ==
  {k \in DOMAIN before \cup DOMAIN after : Get(before, k) # Get(after, k)}

\* C38, step part: a step of a like of id by client c changes no key of the
\* counter store but likes:<id> and no key of the rate-limit store but
\* like:<id>:<c>; a step of a rating changes no key but rating:<id>,
\* rating_count:<id> and rate:<id>:<c>; a like is refused only over a marker a
\* like has put, and a rating only over a marker a rating has put.
C38_Steps ==
  \A s \in Slots :
    (req'[s] # req[s] /\ req'[s].op \in {"like", "rate"}) =>
      LET r == req'[s]
          id == r.in.id
          like == r.op = "like"
      IN /\ Changed(SRM_COUNTS, SRM_COUNTS') \subseteq
              (IF like THEN {LikesKey(id)} ELSE {RatingKey(id), RatingCountKey(id)})
         /\ Changed(SRM_RATELIMIT, SRM_RATELIMIT') \subseteq
              {IF like THEN LikeKey(id, r.in.client) ELSE RateKey(id, r.in.client)}
         /\ (r.pc = "done" /\ r.resp.status = 429) =>
              /\ r.in.key \in DOMAIN hist.markers
              /\ hist.markers[r.in.key].ttl = IF like THEN LikeTtl ELSE RateTtl

\* C38, state part: what a request has written lies within its own keys.
C38_Puts ==
  \A s \in Slots :
    (req[s].op \in {"like", "rate"}) =>
      req[s].puts \subseteq
        (IF req[s].op = "like"
         THEN {LikesKey(req[s].in.id), LikeKey(req[s].in.id, req[s].in.client)}
         ELSE {RatingKey(req[s].in.id), RatingCountKey(req[s].in.id),
               RateKey(req[s].in.id, req[s].in.client)})

\* C38: a like changes at most likes:<id> and like:<id>:<client>, a rating at
\* most rating:<id>, rating_count:<id> and rate:<id>:<client>; every other key
\* of both stores is left as it was, so a like never blocks a rating and a
\* rating never blocks a like.
C38_OwnKeysOnly == []C38_Puts /\ [][C38_Steps]_vars

\* A rating of item 1 was accepted while the same client's like of item 1 is
\* within its window: both markers and all three counters are stored.
C38_Witness ==
  /\ RateDone(req[1]) /\ req[1].resp.status = 200 /\ req[1].in.id = "1"
  /\ <<"like", "1", req[1].in.client>> \in DOMAIN window
  /\ {LikeKey("1", req[1].in.client), RateKey("1", req[1].in.client)} \subseteq DOMAIN SRM_RATELIMIT
  /\ {LikesKey("1"), RatingKey("1"), RatingCountKey("1")} \subseteq DOMAIN SRM_COUNTS

\* The <<kind, id, client>> triples of the requests with separators in their
\* inputs.
ColonTriples ==
  {<<kind, BodyId([id |-> i]), ip(h)>> : kind \in {"like", "rate"}, i \in ColonIds, h \in ColonHeaders}

\* C39 (as claimed): distinct (kind, id, client) triples have distinct marker
\* keys, also when ids or client identities contain ':', so a like or rating is
\* refused only when the same client's action of the same kind on the same item
\* was accepted within the window.
C39_DistinctTriplesDistinctKeys ==
  /\ \A t, u \in ColonTriples : t # u => MarkerKey(t) # MarkerKey(u)
  /\ \A s \in Slots :
       (req[s].pc = "done" /\ req[s].op \in {"like", "rate"} /\ req[s].resp.status = 429) =>
         req[s].was.already

\* The like of item "1" by client "a:b" was refused although that client never
\* liked it: the marker like:1:a:b was put by client "b" liking item "1:a".
C39_Witness ==
  /\ LikeDone(req[1]) /\ req[1].resp.status = 429
  /\ req[1].in.id = "1" /\ req[1].in.client = "a:b"
  /\ ~req[1].was.already
  /\ DOMAIN window = {<<"like", "1:a", "b">>}
  /\ req[1].in.key = MarkerKey(<<"like", "1:a", "b">>)
====
